---- MODULE Spec2Model ----
(***************************************************************************)
(* Bridge host: the message bus (src/src/host/messageBus.js) over its      *)
(* filesystem-backed event store, the signal watcher and subscriber        *)
(* fan-out.                                                                *)
(*                                                                         *)
(* Representation.                                                         *)
(*  - A string is a sequence of tokens; a token is a TLA+ string standing  *)
(*    for one or more characters other than the path separator.  ":" is    *)
(*    the event delimiter.  Tokens are chosen with distinct first          *)
(*    characters, so the lexicographic order on token sequences is the     *)
(*    JavaScript string order.                                             *)
(*  - A path is the sequence of names below config.message.path.           *)
(*  - The file system maps each existing path to a node: a directory or a  *)
(*    regular file with its text.                                          *)
(*  - A payload is a JSON value {"id": n} or the JavaScript value          *)
(*    undefined; JSON text is a TLA+ string.                               *)
(***************************************************************************)
EXTENDS Integers, Sequences, FiniteSets, TLC

\* ---------------------------------------------------------------- bounds
\* Number of postMessage calls in a behaviour.
MaxCalls == 3
\* Largest message.maxHistory a user config sets (0 stands for "not set").
MaxCap == 2
\* Number of subscribers registered with onMessage.
MaxListeners == 2
\* Number of postMessage calls in which the environment fails an operation.
MaxFaults == 1
\* Length, in tokens, of the event names the path mapping is applied to.
MaxNameLen == 3
\* Number of inbound messages (host, worker, surface) in a behaviour.
MaxPosts == 2
\* Number of request/response calls a worker makes.
MaxRequests == 2
\* Number of events the host's bus listener runs for.
MaxHandled == 2
\* Number of worker processes alive at a time.
MaxWorkers == 2
\* Number of views and panels VS Code makes.
MaxViews == 3
\* Number of calls of render.
MaxRenders == 2
\* Number of events without a response that the host's bus listener runs for.
MaxEvents == 3

\* ------------------------------------------------------------- constants
\* load(): maxHistory: userConfig.message.maxHistory || 3
DefaultMaxHistory == 3
\* const timeoutDuration = 5000; // 5 seconds
TimeoutDuration == 5000

\* ------------------------------------------------------- strings, names
Colon == ":"
DataJson == <<"data.json">>
HistoryDir == <<"history">>
MsgSignal == <<"msg.signal">>
Dot == <<".">>

\* Tokens in JavaScript string order, after the digits of a timestamp.
TokenOrder == <<".", ":", "a", "b", "data.json", "history", "msg.signal">>

\* new Date().toISOString().replace(/[:.]/g, '-') + ".json": a fixed-width
\* name that sorts by time; the clock reading t stands for the millisecond.
TimestampName(t) == <<ToString(t)>>

IsTimestampToken(tok) == \E t \in 0..(MaxCalls + 1) : ToString(t) = tok

TokenRank(tok) ==
    IF IsTimestampToken(tok)
    THEN CHOOSE t \in 0..(MaxCalls + 1) : ToString(t) = tok
    ELSE 1000 + (CHOOSE i \in 1..Len(TokenOrder) : TokenOrder[i] = tok)

\* String comparison a < b as Array.prototype.sort() makes it.
RECURSIVE StringLess(_, _)
StringLess(a, b) ==
    IF b = <<>> THEN FALSE
    ELSE IF a = <<>> THEN TRUE
    ELSE IF TokenRank(Head(a)) # TokenRank(Head(b))
         THEN TokenRank(Head(a)) < TokenRank(Head(b))
         ELSE StringLess(Tail(a), Tail(b))

\* fs.readdirSync(dir).sort().reverse(): the names, largest first.
RECURSIVE SortReverse(_)
SortReverse(names) ==
    IF names = {} THEN <<>>
    ELSE LET m == CHOOSE n \in names : \A o \in names \ {n} : StringLess(o, n)
         IN  <<m>> \o SortReverse(names \ {m})

\* String.prototype.split(':')
RECURSIVE Split(_)
Split(s) ==
    IF s = <<>> THEN << <<>> >>
    ELSE IF Head(s) = Colon THEN << <<>> >> \o Split(Tail(s))
    ELSE LET r == Split(Tail(s))
         IN  << <<Head(s)>> \o Head(r) >> \o Tail(r)

\* Array.prototype.join(':')
RECURSIVE Join(_)
Join(parts) ==
    IF parts = <<>> THEN <<>>
    ELSE IF Len(parts) = 1 THEN Head(parts)
    ELSE Head(parts) \o <<Colon>> \o Join(Tail(parts))

\* path.join(config.message.path, ...parts): empty parts are dropped by the
\* normalisation.  The result is given relative to config.message.path.
PathJoin(parts) == SelectSeq(parts, LAMBDA p : p # <<>>)

\* path.dirname of a relative path: "." when there is no directory part.
Dirname(p) == IF Len(p) <= 1 THEN <<Dot>> ELSE SubSeq(p, 1, Len(p) - 1)

\* An event argument that is not a string but truthy (a number, an object):
\* it has no split method.
NotAString == <<"[object Object]">>
IsString(event) == event # NotAString
\* JavaScript truthiness of an event argument: the empty string is falsy.
Truthy(event) == event # <<>>

\* eventToPath(event): the directory of an event, below config.message.path.
eventToPath(event) == PathJoin(Split(event))

\* The name of the directory that holds the signal file, taken for the event.
pathToEventBasename(fsPath) ==
    LET dir == Dirname(fsPath) IN dir[Len(dir)]

\* pathToEvent(fsPath): the event of a signal file, from its path relative to
\* config.message.path.
pathToEvent(fsPath) == Join(Dirname(fsPath))

\* ------------------------------------------------------------- payloads
\* A payload that JSON can carry, {"id": n}, and the value undefined.
Obj(n) == [k |-> "object", id |-> n]
Undefined == [k |-> "undefined", id |-> 0]

\* JSON.stringify(payload, null, 2): the text, or undefined for undefined.
JsonText(n) == "{\"id\": " \o ToString(n) \o "}"
Stringify(payload) ==
    IF payload.k = "undefined" THEN [defined |-> FALSE, text |-> ""]
    ELSE [defined |-> TRUE, text |-> JsonText(payload.id)]

\* JSON.parse(text): throws a SyntaxError on anything that is not JSON text.
IsJson(text) == \E n \in 1..(MaxCalls + 1) : JsonText(n) = text
Parse(text) ==
    IF IsJson(text)
    THEN [err |-> FALSE,
          value |-> Obj(CHOOSE n \in 1..(MaxCalls + 1) : JsonText(n) = text)]
    ELSE [err |-> TRUE, value |-> Undefined]

\* ---------------------------------------------------------- file system
DirNode == [t |-> "dir", c |-> ""]
FileNode(text) == [t |-> "file", c |-> text]

EmptyFs == [p \in {<<>>} |-> DirNode]

IsUnder(q, p) == Len(q) >= Len(p) /\ SubSeq(q, 1, Len(p)) = p
Prefixes(p) == {SubSeq(p, 1, k) : k \in 0..Len(p)}
Children(f, dir) == {q \in DOMAIN f : Len(q) = Len(dir) + 1 /\ IsUnder(q, dir)}

Ok(f) == [err |-> FALSE, fs |-> f]
Fail(f) == [err |-> TRUE, fs |-> f]

existsSync(f, p) == p \in DOMAIN f

\* fs.mkdirSync(p, { recursive: true }): fails when a component is a file.
mkdirSync(f, p) ==
    IF \E q \in Prefixes(p) : q \in DOMAIN f /\ f[q].t = "file"
    THEN Fail(f)
    ELSE Ok([q \in DOMAIN f \cup Prefixes(p) |->
                IF q \in DOMAIN f THEN f[q] ELSE DirNode])

\* fs.renameSync(src, dst): moves src with everything below it; an existing
\* dst is replaced when it is of the same kind (a directory only if empty).
renameSync(f, src, dst) ==
    IF src \notin DOMAIN f THEN Fail(f)
    ELSE IF dst \in DOMAIN f
            /\ (f[dst].t # f[src].t \/ Children(f, dst) # {})
    THEN Fail(f)
    ELSE LET kept  == {q \in DOMAIN f : ~IsUnder(q, src) /\ q # dst}
             moved == {dst \o SubSeq(q, Len(src) + 1, Len(q)) :
                          q \in {r \in DOMAIN f : IsUnder(r, src)}}
         IN  Ok([q \in kept \cup moved |->
                    IF q \in moved
                    THEN f[src \o SubSeq(q, Len(dst) + 1, Len(q))]
                    ELSE f[q]])

\* fs.readdirSync(dir): the names of the entries of dir.
readdirSync(f, dir) == {q[Len(q)] : q \in Children(f, dir)}

\* fs.unlinkSync(p): removes a regular file; fails on a directory.
unlinkSync(f, p) ==
    IF p \notin DOMAIN f \/ f[p].t = "dir" THEN Fail(f)
    ELSE Ok([q \in DOMAIN f \ {p} |-> f[q]])

\* fs.openSync(p, 'w'): creates or truncates a regular file.
openSyncW(f, p) ==
    IF p \in DOMAIN f /\ f[p].t = "dir" THEN Fail(f)
    ELSE Ok([q \in DOMAIN f \cup {p} |-> IF q = p THEN FileNode("") ELSE f[q]])

\* The write(2) that follows the open in fs.writeFileSync.
writeText(f, p, text) ==
    Ok([q \in DOMAIN f \cup {p} |-> IF q = p THEN FileNode(text) ELSE f[q]])

\* fs.readFileSync(p, 'utf8')
readFileSync(f, p) ==
    IF p \notin DOMAIN f \/ f[p].t = "dir" THEN [err |-> TRUE, text |-> ""]
    ELSE [err |-> FALSE, text |-> f[p].c]

\* ------------------------------------------------- broadcast, onSignal
\* A subscriber is the callback given to onMessage: id numbers the
\* registrations, kind says whether the callback returns or throws.
ListenerKinds == {"returns", "throws"}

Delivery(event, payload) == [event |-> event, payload |-> payload]

\* One turn of the loop in broadcast: try { listener(event, payload) }
\* catch { appendLine }.  cs records, per subscriber, the arguments of every
\* invocation.
invokeUncaught(l, event, payload, cs, out) ==
    [calls  |-> [cs EXCEPT ![l.id] = Append(@, Delivery(event, payload))],
     out    |-> out,
     raised |-> l.kind = "throws"]

invoke(l, event, payload, cs, out) ==
    [calls  |-> [cs EXCEPT ![l.id] = Append(@, Delivery(event, payload))],
     out    |-> IF l.kind = "throws" THEN Append(out, "Error in listener") ELSE out,
     raised |-> FALSE]

RECURSIVE broadcastFrom(_, _, _, _, _, _)
broadcastFrom(i, event, payload, ls, cs, out) ==
    IF i > Len(ls) THEN [calls |-> cs, out |-> out, raised |-> FALSE]
    ELSE LET r == invoke(ls[i], event, payload, cs, out)
         IN  IF r.raised THEN r
             ELSE broadcastFrom(i + 1, event, payload, ls, r.calls, r.out)

broadcast(event, payload, ls, cs, out) ==
    broadcastFrom(1, event, payload, ls, cs, out)

\* The handler without its try/catch: a payload file that cannot be read or
\* parsed throws out of the handler.
onSignalUncaught(uri, f, ls, cs, out) ==
    LET event    == pathToEvent(uri)
        dataPath == Append(SubSeq(uri, 1, Len(uri) - 1), DataJson)
    IN  IF ~existsSync(f, dataPath)
        THEN [calls |-> cs, out |-> out, delivered |-> FALSE, raised |-> FALSE]
        ELSE LET rd == readFileSync(f, dataPath)
                 pr == Parse(rd.text)
             IN  IF rd.err \/ pr.err
                 THEN [calls |-> cs, out |-> out, delivered |-> FALSE, raised |-> TRUE]
                 ELSE LET b == broadcast(event, pr.value, ls, cs,
                                         Append(out, "Filesystem event detected"))
                      IN  [calls |-> b.calls, out |-> b.out, delivered |-> TRUE,
                           raised |-> b.raised]

\* The handler of watcher.onDidCreate and watcher.onDidChange: the body is
\* one try block, the catch logs, so nothing is raised to the watcher.
onSignal(uri, f, ls, cs, out) ==
    LET event    == pathToEvent(uri)
        dataPath == Append(SubSeq(uri, 1, Len(uri) - 1), DataJson)
        failed   == [calls |-> cs,
                     out   |-> Append(out, "Error processing signal file"),
                     delivered |-> FALSE, raised |-> FALSE]
    IN  IF ~existsSync(f, dataPath)
        THEN [calls |-> cs, out |-> out, delivered |-> FALSE, raised |-> FALSE]
        ELSE LET rd == readFileSync(f, dataPath)
                 pr == Parse(rd.text)
             IN  IF rd.err \/ pr.err THEN failed
                 ELSE LET b == broadcast(event, pr.value, ls, cs,
                                         Append(out, "Filesystem event detected"))
                      IN  IF b.raised
                          THEN [calls |-> b.calls,
                                out   |-> Append(b.out, "Error processing signal file"),
                                delivered |-> TRUE, raised |-> FALSE]
                          ELSE [calls |-> b.calls, out |-> b.out,
                                delivered |-> TRUE, raised |-> FALSE]

\* ------------------------------------------------------------ postMessage
\* The body of postMessage, one store operation per step.  A frame holds the
\* activation's locals: pc (the statement to run next), the arguments, the
\* reading of the clock, historyFiles, and whether an exception left the
\* function.  fault names a store operation that the environment fails in
\* this call (permissions, disk full, ...), or "none"; struck says that the
\* call got to that operation.  The world is what
\* the call shares with everything else: the files, the watcher's pending
\* notifications, the output channel, the subscribers and the record of
\* their invocations.
FaultPoints == {"mkdir", "rename", "readdir", "unlink", "open", "write", "touch"}

Frame(event, payload, clock, fault) ==
    [pc |-> "eventToPath", event |-> event, payload |-> payload,
     clock |-> clock, fault |-> fault, historyFiles |-> <<>>,
     struck |-> FALSE, caught |-> FALSE, raised |-> FALSE]

IdleFrame == [Frame(<<>>, Undefined, 0, "none") EXCEPT !.pc = "done"]

World(f, sigs, out, ls, cs) ==
    [fs |-> f, signals |-> sigs, outputChannel |-> out, listeners |-> ls,
     calls |-> cs]

\* The watcher reports a created or changed *.signal file while it is not
\* disposed.
Notify(sigs, watching, p) == IF watching THEN Append(sigs, p) ELSE sigs

Goto(fr, w, pc) == [fr |-> [fr EXCEPT !.pc = pc], w |-> w]
\* The environment fails the operation at hand: it throws.
Strike(fr, w) == [fr |-> [fr EXCEPT !.pc = "catch", !.struck = TRUE], w |-> w]
\* A store operation that returned r: on success continue at pc with r.fs.
After(fr, w, r, pc) ==
    IF r.err THEN Goto(fr, w, "catch")
    ELSE [fr |-> [fr EXCEPT !.pc = pc], w |-> [w EXCEPT !.fs = r.fs]]

\* The end of the try block: the call returns; the subscribers hear of the
\* message when the watcher reports the signal.
ReturnAfterBroadcast(fr, w) ==
    LET b == broadcast(fr.event, fr.payload, w.listeners, w.calls, w.outputChannel)
    IN  [fr |-> [fr EXCEPT !.pc = "done"],
         w  |-> [w EXCEPT !.calls = b.calls, !.outputChannel = b.out]]

Return(fr, w) == [fr |-> [fr EXCEPT !.pc = "done"], w |-> w]

\* catch (error) { outputChannel.appendLine(...) }: the call returns.
CatchRethrows(fr, w) ==
    [fr |-> [fr EXCEPT !.pc = "done", !.caught = TRUE, !.raised = TRUE],
     w  |-> w]

Catch(fr, w) ==
    [fr |-> [fr EXCEPT !.pc = "done", !.caught = TRUE],
     w  |-> [w EXCEPT !.outputChannel = Append(@, "Failed to post message")]]

Step(fr, w, cfg, watching) ==
    LET eventPath   == eventToPath(fr.event)
        dataPath    == Append(eventPath, DataJson)
        historyPath == Append(eventPath, HistoryDir)
        signalPath  == Append(eventPath, MsgSignal)
        f           == w.fs
    IN
    CASE fr.pc = "eventToPath" ->
           \* event.split throws on a value that is not a string; config is
           \* null after deactivate: config.message throws.
           IF IsString(fr.event) /\ cfg.loaded THEN Goto(fr, w, "mkdirEvent")
           ELSE Goto(fr, w, "catch")
      [] fr.pc = "mkdirEvent" ->
           IF fr.fault = "mkdir" THEN Strike(fr, w)
           ELSE After(fr, w, mkdirSync(f, eventPath), "mkdirHistory")
      [] fr.pc = "mkdirHistory" ->
           After(fr, w, mkdirSync(f, historyPath), "existsSync")
      [] fr.pc = "existsSync" ->
           IF existsSync(f, dataPath) THEN Goto(fr, w, "rename")
           ELSE Goto(fr, w, "stringify")
      [] fr.pc = "rename" ->
           IF fr.fault = "rename" THEN Strike(fr, w)
           ELSE After(fr, w,
                      renameSync(f, dataPath,
                                 Append(historyPath, TimestampName(fr.clock))),
                      "readdir")
      [] fr.pc = "readdir" ->
           IF fr.fault = "readdir" THEN Strike(fr, w)
           ELSE IF ~existsSync(f, historyPath) \/ f[historyPath].t # "dir"
           THEN Goto(fr, w, "catch")
           ELSE [fr |-> [fr EXCEPT !.pc = "trim",
                            !.historyFiles = SortReverse(readdirSync(f, historyPath))],
                 w  |-> w]
      [] fr.pc = "trim" ->
           IF Len(fr.historyFiles) > cfg.maxHistory
           THEN LET n            == Len(fr.historyFiles)
                    fileToDelete == fr.historyFiles[n]
                    popped       == [fr EXCEPT !.historyFiles = SubSeq(@, 1, n - 1)]
                IN  IF fr.fault = "unlink" THEN Strike(popped, w)
                    ELSE After(popped, w,
                               unlinkSync(f, Append(historyPath, fileToDelete)),
                               "trim")
           ELSE Goto(fr, w, "stringify")
      [] fr.pc = "stringify" ->
           \* writeFileSync rejects a value that is not a string or a buffer
           \* before it opens the file.
           IF Stringify(fr.payload).defined THEN Goto(fr, w, "open")
           ELSE Goto(fr, w, "catch")
      [] fr.pc = "open" ->
           IF fr.fault = "open" THEN Strike(fr, w)
           ELSE After(fr, w, openSyncW(f, dataPath), "write")
      [] fr.pc = "write" ->
           IF fr.fault = "write" THEN Strike(fr, w)
           ELSE After(fr, w, writeText(f, dataPath, Stringify(fr.payload).text),
                      "utimes")
      [] fr.pc = "utimes" ->
           \* fs.utimesSync fails on a missing file; the inner catch opens it.
           IF fr.fault = "touch" \/ ~existsSync(f, signalPath)
           THEN Goto(fr, w, "touchOpen")
           ELSE Return(fr, [w EXCEPT !.signals = Notify(@, watching, signalPath)])
      [] fr.pc = "touchOpen" ->
           IF fr.fault = "touch" THEN Strike(fr, w)
           ELSE LET r == openSyncW(f, signalPath)
                IN  IF r.err THEN Goto(fr, w, "catch")
                    ELSE Return(fr, [w EXCEPT !.fs = r.fs,
                                              !.signals = Notify(@, watching, signalPath)])
      [] fr.pc = "catch" -> Catch(fr, w)
      [] OTHER -> [fr |-> fr, w |-> w]

\* The call as the single-threaded host runs it: every step to the return.
RECURSIVE Run(_, _, _, _)
Run(fr, w, cfg, watching) ==
    IF fr.pc = "done" THEN [fr |-> fr, w |-> w]
    ELSE LET n == Step(fr, w, cfg, watching)
         IN  Run(n.fr, n.w, cfg, watching)

postMessage(event, payload, clock, fault, w, cfg, watching) ==
    Run(Frame(event, payload, clock, fault), w, cfg, watching)

\* load(): message.maxHistory of the loaded configuration.
load(userMaxHistory) ==
    IF userMaxHistory = 0 THEN DefaultMaxHistory ELSE userMaxHistory

\* ------------------------------------------------------------------ state
VARIABLES
    config,         \* messageBus.js config: loaded (non-null) and message.maxHistory
    watcher,        \* TRUE while the FileSystemWatcher is not disposed
    fs,             \* the files below config.message.path
    signals,        \* notifications the watcher has not yet handed to onSignal
    listeners,      \* messageBus.js listeners
    outputChannel,  \* the lines appended to the output channel
    now,            \* the latest reading of the clock
    calls,          \* per subscriber id, the arguments of each invocation
    nCalls,         \* number of postMessage calls so far
    nFaults,        \* number of calls with a failing store operation so far
    published,      \* per event, the payloads of the calls that completed
    lastOp,         \* the operation that made the last step, and its outcome
    frame,          \* the postMessage activation in progress (SpecRace)
    seen,           \* what the reader of the store saw last (SpecRace)
    probe           \* event names and what the path mapping made of them (SpecPath)

\* A worker's SDK (src/src/app/sdk/message.js) and the host's handlers.
VARIABLES
    sdkListeners,   \* message.js listeners: per event name, the callbacks
    requests,       \* the request/response calls the worker has made
    sent,           \* the messages the worker handed to process.send
    handled,        \* the events the host's bus listener ran for, and what its
                    \* handlers gave to messageBus.postMessage
    activeProcesses, \* processManager's activeProcesses, in insertion order
    processes       \* per process id, the child process that has it, if any

\* The UI manager (src/src/host/uiManager.js).
VARIABLES
    activeInterfaces,   \* per surface id, the registered view and its type
    readinessPromises,  \* per static surface id, its current readiness promise
    promises,           \* every readiness promise made, resolved or not
    renders,            \* the render calls and where each of them stands
    views               \* the views VS Code has made, and whether they are disposed

\* The legacy pipeline host (src/extension.js).
VARIABLES
    provider,           \* the BridgeViewProvider: its view, its _activeProcess
    pipelines           \* the pipeline processes forked so far

busVars == <<config, watcher, fs, signals, listeners, outputChannel, now>>
histVars == <<calls, nCalls, nFaults, published, lastOp>>
raceVars == <<frame, seen>>
sdkVars == <<sdkListeners, requests, sent, handled, activeProcesses, processes>>
uiVars == <<activeInterfaces, readinessPromises, promises, renders, views>>
legacyVars == <<provider, pipelines>>
vars == <<busVars, histVars, raceVars, probe, sdkVars, uiVars, legacyVars>>

\* The event names the host publishes in a behaviour.
EventNames == {<<"a">>, <<"a", ":", "b">>}
\* The event name the store is exercised on when operations fail.
StoreEvents == {<<"a", ":", "b">>}

\* ------------------------------------------------------- reading the store
Absent == [k |-> "absent", id |-> 0]
Corrupt == [k |-> "corrupt", id |-> 0]

\* A payload file read as onSignal reads data.json: absent when the file
\* does not exist, corrupt when it cannot be read and parsed.
ReadPayload(f, p) ==
    IF ~existsSync(f, p) THEN Absent
    ELSE LET rd == readFileSync(f, p)
             pr == Parse(rd.text)
         IN  IF rd.err \/ pr.err THEN Corrupt ELSE pr.value

\* The current payload of an event.
Current(f, event) == ReadPayload(f, Append(eventToPath(event), DataJson))

\* The retained history of an event: the payloads of the entries of its
\* history directory, most recent name first.
History(f, event) ==
    LET historyPath == Append(eventToPath(event), HistoryDir)
        names == IF existsSync(f, historyPath)
                 THEN SortReverse(readdirSync(f, historyPath)) ELSE <<>>
    IN  [i \in 1..Len(names) |-> ReadPayload(f, Append(historyPath, names[i]))]

NothingSeen == [k |-> "nothing", id |-> 0, hadCurrent |-> FALSE]
NoProbe == [stage |-> "none", e1 |-> <<>>, e2 |-> <<>>, p1 |-> <<>>, p2 |-> <<>>,
            back |-> <<>>]

Op(op, event, payload, ok, raised) ==
    [op |-> op, event |-> event, payload |-> payload, ok |-> ok, raised |-> raised]

\* ------------------------------------------- reserved events, surface ids
ListRunningRequest  == <<"bridge", ":", "app", ":", "listRunningRequest">>
ListRunningResponse == <<"bridge", ":", "app", ":", "listRunningResponse">>
CreatePanelRequest  == <<"bridge", ":", "ui", ":", "createPanelRequest">>
CreatePanelResponse == <<"bridge", ":", "ui", ":", "createPanelResponse">>
ReadFileRequest     == <<"bridge", ":", "workspace", ":", "readFileRequest">>
ReadFileResponse    == <<"bridge", ":", "workspace", ":", "readFileResponse">>
GetInfoRequest      == <<"bridge", ":", "os", ":", "getInfoRequest">>
GetInfoResponse     == <<"bridge", ":", "os", ":", "getInfoResponse">>

RequestEvents ==
    {ListRunningRequest, CreatePanelRequest, ReadFileRequest, GetInfoRequest}
ResponseEvents ==
    {ListRunningResponse, CreatePanelResponse, ReadFileResponse, GetInfoResponse}

\* The static surfaces: createReadinessPromise('sidebar'), ('bottombar').
StaticIds == {"sidebar", "bottombar"}

\* A readiness promise: the surface it was made for and whether it is resolved.
Promise(id) == [id |-> id, resolved |-> FALSE]

\* The worker's SDK as the bootstrap leaves it, the handlers' record empty,
\* no worker process tracked.
\* The ChildProcess that has a process id.  state is "free" when no child
\* has the id, "running", or "failed" for a child whose spawn failed; connected
\* says the IPC channel is open, killed that kill() signalled it, inbox counts
\* the calls of send() on it, and error says an 'error' event is due on the
\* next tick.
NoProcess ==
    [state |-> "free", connected |-> FALSE, killed |-> FALSE, inbox |-> 0,
     error |-> FALSE]

\* The process ids: 0 is the undefined pid of a child whose spawn failed.
Pids == 0..MaxWorkers

InitSdk ==
    /\ sdkListeners = [e \in ResponseEvents |-> {}]
    /\ requests = <<>>
    /\ sent = <<>>
    /\ handled = <<>>
    /\ activeProcesses = <<>>
    /\ processes = [pid \in Pids |-> NoProcess]

\* uiManager.initialize: a pending readiness promise for each static
\* surface, nothing registered.
InitUi ==
    /\ activeInterfaces = <<>>
    /\ promises = <<Promise("sidebar"), Promise("bottombar")>>
    /\ readinessPromises = [id \in StaticIds |-> IF id = "sidebar" THEN 1 ELSE 2]
    /\ renders = <<>>
    /\ views = <<>>

\* activate(): the configuration is loaded and messageBus.initialize has
\* created the root directory and the watcher.
InitBus ==
    /\ \E user \in 0..MaxCap : config = [loaded |-> TRUE, maxHistory |-> load(user)]
    /\ watcher = TRUE
    /\ fs = EmptyFs
    /\ signals = <<>>
    /\ listeners = <<>>
    /\ outputChannel = <<>>
    /\ now = 0
    /\ calls = <<>>
    /\ nCalls = 0
    /\ nFaults = 0
    /\ published = [e \in EventNames |-> <<>>]
    /\ lastOp = Op("initialize", <<>>, Undefined, TRUE, FALSE)
    /\ frame = IdleFrame
    /\ seen = NothingSeen

\* new BridgeViewProvider(): no view, _activeProcess undefined (0); nothing
\* forked.
InitLegacy ==
    /\ provider = [view |-> "none", activeProcess |-> 0]
    /\ pipelines = <<>>

Init == InitBus /\ probe = NoProbe /\ InitSdk /\ InitUi /\ InitLegacy

\* messageBus.postMessage(event, payload) called on the host's thread, with
\* the clock reading clock and the environment failing the operation fault,
\* one that the call gets to.
Publish(event, payload, clock, fault) ==
    LET r  == postMessage(event, payload, clock, fault,
                          World(fs, signals, outputChannel, listeners, calls),
                          config, watcher)
        ok == ~r.fr.caught
    IN  /\ nCalls < MaxCalls
        /\ fault # "none" => r.fr.struck
        /\ fs' = r.w.fs
        /\ signals' = r.w.signals
        /\ outputChannel' = r.w.outputChannel
        /\ calls' = r.w.calls
        /\ now' = clock
        /\ nCalls' = nCalls + 1
        /\ nFaults' = IF fault = "none" THEN nFaults ELSE nFaults + 1
        /\ published' = IF ok /\ event \in DOMAIN published
                        THEN [published EXCEPT ![event] = Append(@, payload)]
                        ELSE published
        /\ lastOp' = Op("postMessage", event, payload, ok, r.fr.raised)
        /\ UNCHANGED <<legacyVars, config, watcher, listeners, raceVars, probe, sdkVars, uiVars>>

\* A publish a millisecond or more after the last one, of a fresh payload or
\* of undefined, with every store operation succeeding.
PostMessage ==
    \E event \in EventNames, payload \in {Obj(nCalls + 1), Undefined} :
       Publish(event, payload, now + 1, "none")

\* A publish of any payload at any time, which the environment may fail.
PostMessageFaulty ==
    \E event \in StoreEvents, payload \in {Obj(nCalls + 1), Undefined},
       clock \in {now, now + 1},
       fault \in {"none"} \cup (IF nFaults < MaxFaults THEN FaultPoints ELSE {}) :
       Publish(event, payload, clock, fault)

\* The watcher hands its oldest pending notification to onSignal.
OnSignal ==
    /\ watcher
    /\ signals # <<>>
    /\ LET uri == Head(signals)
           r   == onSignal(uri, fs, listeners, calls, outputChannel)
       IN  /\ calls' = r.calls
           /\ outputChannel' = r.out
           /\ lastOp' = Op("onSignal", pathToEvent(uri), Undefined, r.delivered, r.raised)
    /\ signals' = Tail(signals)
    /\ UNCHANGED <<legacyVars, config, watcher, fs, listeners, now, nCalls, nFaults, published,
                   raceVars, probe, sdkVars, uiVars>>

\* messageBus.onMessage(callback): listeners.push(callback).  The host
\* subscribes while it activates, before anything is published.
OnMessage ==
    /\ config.loaded
    /\ nCalls = 0
    /\ Len(calls) < MaxListeners
    /\ \E kind \in ListenerKinds :
          listeners' = Append(listeners, [id |-> Len(calls) + 1, kind |-> kind])
    /\ calls' = Append(calls, <<>>)
    /\ lastOp' = Op("onMessage", <<>>, Undefined, TRUE, FALSE)
    /\ UNCHANGED <<legacyVars, config, watcher, fs, signals, outputChannel, now, nCalls, nFaults,
                   published, raceVars, probe, sdkVars, uiVars>>

\* messageBus.deactivate(): the watcher is disposed (its pending
\* notifications are dropped), the subscribers are forgotten, config = null.
\* The module keeps its reference to the output channel.
Deactivate ==
    /\ config.loaded
    /\ watcher' = FALSE
    /\ signals' = <<>>
    /\ listeners' = <<>>
    /\ config' = [config EXCEPT !.loaded = FALSE]
    /\ lastOp' = Op("deactivate", <<>>, Undefined, TRUE, FALSE)
    /\ UNCHANGED <<legacyVars, fs, outputChannel, now, calls, nCalls, nFaults, published, raceVars,
                   probe, sdkVars, uiVars>>

\* The bus in normal operation: publishes, subscriptions, fan-out, shutdown.
Next == PostMessage \/ OnSignal \/ OnMessage \/ Deactivate

Spec == Init /\ [][Next]_vars

\* The event store under failing operations and colliding timestamps.
NextStore == PostMessageFaulty \/ OnSignal \/ Deactivate

SpecStore == Init /\ [][NextStore]_vars

\* Event names of which one is a prefix of another, and one whose last
\* segment is the name of the history directory.
NestedEvents == {<<"a">>, <<"a", ":", "b">>, <<"a", ":", "history">>}

\* A publish on one of the nested names, every store operation succeeding.
PostMessageNested ==
    \E event \in NestedEvents, payload \in {Obj(nCalls + 1), Undefined} :
       Publish(event, payload, now + 1, "none")

NextNested == PostMessageNested \/ OnSignal

SpecNested == Init /\ [][NextNested]_vars

\* The watcher and the subscribers over a store in which a publish can be
\* cut short: a payload of undefined leaves no payload file, a failing write
\* leaves an empty one.
PostMessageTorn ==
    \E event \in StoreEvents, payload \in {Obj(nCalls + 1), Undefined},
       fault \in {"none"} \cup (IF nFaults < MaxFaults THEN {"write"} ELSE {}) :
       Publish(event, payload, now + 1, fault)

NextWatch == OnMessage \/ PostMessageTorn \/ OnSignal

SpecWatch == Init /\ [][NextWatch]_vars

\* ------------------------------------------- a publish racing a reader
\* The host's postMessage seen from another process: its store operations
\* happen one at a time, and the other process reads the current payload of
\* the event between any two of them.
BeginPublish ==
    /\ frame.pc = "done"
    /\ nCalls < MaxCalls
    /\ \E event \in StoreEvents :
          frame' = Frame(event, Obj(nCalls + 1), now + 1, "none")
    /\ UNCHANGED <<legacyVars, busVars, histVars, seen, probe, sdkVars, uiVars>>

StepPublish ==
    /\ frame.pc # "done"
    /\ LET n == Step(frame, World(fs, signals, outputChannel, listeners, calls),
                     config, watcher)
           finished == n.fr.pc = "done"
           ok == ~n.fr.caught
       IN  /\ frame' = n.fr
           /\ fs' = n.w.fs
           /\ signals' = n.w.signals
           /\ outputChannel' = n.w.outputChannel
           /\ calls' = n.w.calls
           /\ now' = IF finished THEN frame.clock ELSE now
           /\ nCalls' = IF finished THEN nCalls + 1 ELSE nCalls
           /\ published' = IF finished /\ ok
                           THEN [published EXCEPT ![frame.event] = Append(@, frame.payload)]
                           ELSE published
           /\ lastOp' = IF finished
                        THEN Op("postMessage", frame.event, frame.payload, ok, n.fr.raised)
                        ELSE lastOp
    /\ UNCHANGED <<legacyVars, config, watcher, listeners, nFaults, seen, probe, sdkVars, uiVars>>

\* Another process reads the current payload of an event.
Read ==
    /\ \E event \in StoreEvents :
          LET c == Current(fs, event)
          IN  seen' = [k |-> c.k, id |-> c.id,
                       hadCurrent |-> published[event] # <<>>]
    /\ UNCHANGED <<legacyVars, busVars, histVars, frame, probe, sdkVars, uiVars>>

NextRace == BeginPublish \/ StepPublish \/ Read

SpecRace == Init /\ [][NextRace]_vars

\* ------------------------------------------- inbound messages, any name
\* The event arguments a caller can pass: the empty string, short names with
\* or without empty segments, and a value that is not a string.
RECURSIVE TokenStrings(_)
TokenStrings(n) ==
    IF n = 0 THEN {<<>>}
    ELSE {<<t>> \o r : t \in {"a", "b", Colon}, r \in TokenStrings(n - 1)}

PostedNames == TokenStrings(0) \cup TokenStrings(1) \cup TokenStrings(2) \cup {NotAString}

\* sdk.postMessage: process.send unless the event is not a non-empty string.
sdkPostMessageSends(event) == IsString(event) /\ Truthy(event)
\* A handler that forwards whatever arrives.
forwardsAll(event) == TRUE

\* appProcess.on('message') and webview.onDidReceiveMessage: if (event).
forwardsToBus(event) == Truthy(event)

\* A message that does not get to messageBus.postMessage.
Dropped(event, payload) ==
    /\ nCalls' = nCalls + 1
    /\ lastOp' = Op("dropped", event, payload, FALSE, FALSE)
    /\ UNCHANGED <<legacyVars, busVars, calls, nFaults, published, raceVars, probe, sdkVars, uiVars>>

Inbound(event, payload, accepted) ==
    /\ nCalls < MaxPosts
    /\ IF accepted THEN Publish(event, payload, now + 1, "none")
       ELSE Dropped(event, payload)

\* Host code calls messageBus.postMessage(event, payload).
HostPost ==
    \E event \in PostedNames : Inbound(event, Obj(nCalls + 1), TRUE)

\* A worker calls sdk.postMessage(event, payload); the host's handler of the
\* worker's IPC messages forwards what arrives to the bus.
WorkerPost ==
    \E event \in PostedNames :
       Inbound(event, Obj(nCalls + 1),
               sdkPostMessageSends(event) /\ forwardsToBus(event))

\* A surface posts { event, payload }; the view's onDidReceiveMessage handler
\* forwards it to the bus.
SurfacePost ==
    \E event \in PostedNames :
       Inbound(event, Obj(nCalls + 1), forwardsToBus(event))

NextValidate == HostPost \/ WorkerPost \/ SurfacePost \/ OnSignal

SpecValidate == Init /\ [][NextValidate]_vars

\* ------------------------------------------------ the SDK in a worker
\* The request/response calls of the SDK: getRunningApps and getInfo
\* (message.js), createPanel (part_001), readFile (part_002).
Apis == {"getRunningApps", "createPanel", "readFile", "getInfo"}

RequestEvent(api) ==
    CASE api = "getRunningApps" -> ListRunningRequest
      [] api = "createPanel"    -> CreatePanelRequest
      [] api = "readFile"       -> ReadFileRequest
      [] api = "getInfo"        -> GetInfoRequest

ResponseEvent(api) ==
    CASE api = "getRunningApps" -> ListRunningResponse
      [] api = "createPanel"    -> CreatePanelResponse
      [] api = "readFile"       -> ReadFileResponse
      [] api = "getInfo"        -> GetInfoResponse

\* A call in progress: the closure of the promise executor.  requestId is the
\* index of the call (crypto.randomUUID() does not repeat).  state is the
\* promise's, timer the timeout's, elapsed the time since setTimeout.
\* matched counts the runs of the callback's matching branch, by is the
\* requestId of the payload that settled the call, subscribedAtSend whether
\* the callback was registered when the request went to process.send.  late
\* says that a message carrying this requestId on the call's response event
\* reached the worker after the call had settled, missed that one reached
\* it while the call was pending and left it pending.
Request(api) ==
    [api |-> api, state |-> "pending", why |-> "none", timer |-> "none",
     elapsed |-> 0, matched |-> 0, by |-> 0, subscribedAtSend |-> FALSE,
     late |-> FALSE, missed |-> FALSE]

\* The payload of a message as a callback sees it.  requestId 0 stands for a
\* payload without one; k = "undefined" for a message without payload.
Payload(requestId, error, data, readable) ==
    [k |-> "object", requestId |-> requestId, error |-> error, data |-> data,
     readable |-> readable]
NoPayload == [Payload(0, FALSE, FALSE, FALSE) EXCEPT !.k = "undefined"]

Message(event, payload) == [event |-> event, payload |-> payload]

\* The SDK's state in one value: the listeners, the calls, what went to
\* process.send.
Sdk(ls, rs, out) == [listeners |-> ls, requests |-> rs, sent |-> out]

\* sdk.onMessage(event, callback): the callback of call id joins the set.
sdkOnMessage(k, event, id) ==
    [k EXCEPT !.listeners[event] = @ \cup {id}]

\* The unsubscribe function sdk.onMessage returned.
unsubscribe(k, event, id) ==
    [k EXCEPT !.listeners[event] = @ \ {id}]

\* setTimeout(..., timeoutDuration) and clearTimeout(timeout): a cleared
\* timeout has no time left to run.
setTimeout(k, id) == [k EXCEPT !.requests[id].timer = "armed"]
clearTimeout(k, id) ==
    IF k.requests[id].timer # "armed" THEN k
    ELSE [k EXCEPT !.requests[id].timer = "cleared", !.requests[id].elapsed = 0]

\* resolve and reject of the call's promise: a settled promise stays as it is.
settle(k, id, state, why, by) ==
    IF k.requests[id].state # "pending" THEN k
    ELSE [k EXCEPT !.requests[id].state = state, !.requests[id].why = why,
                   !.requests[id].by = by]

\* sdk.postMessage(event, payload) of a request: process.send({event, payload}).
sendRequest(k, api, id) ==
    LET event == RequestEvent(api)
    IN  IF ~sdkPostMessageSends(event) THEN k
        ELSE [k EXCEPT !.sent = Append(@, Message(event, Payload(id, FALSE, TRUE, FALSE))),
                       !.requests[id].subscribedAtSend =
                           id \in k.listeners[ResponseEvent(api)]]

\* The promise executor with the request sent before the subscription.
CallSendsFirst(k, api) ==
    LET id == Len(k.requests) + 1
        k0 == [k EXCEPT !.requests = Append(@, Request(api))]
    IN  sdkOnMessage(sendRequest(setTimeout(k0, id), api, id), ResponseEvent(api), id)

\* The promise executor of getRunningApps, createPanel, readFile, getInfo:
\* setTimeout, sdk.onMessage(response event), sdk.postMessage(request event).
Call(k, api) ==
    LET id == Len(k.requests) + 1
        k0 == [k EXCEPT !.requests = Append(@, Request(api))]
    IN  sendRequest(sdkOnMessage(setTimeout(k0, id), ResponseEvent(api), id), api, id)

\* The timeout callback that rejects and leaves the subscription.
onTimeoutKeepsSubscription(k, id) ==
    settle([k EXCEPT !.requests[id].timer = "fired"], id, "rejected", "timeout", 0)

\* The timeout callback: unsubscribe(); reject(new Error(... timed out)).
onTimeout(k, id) ==
    settle(unsubscribe([k EXCEPT !.requests[id].timer = "fired"],
                       ResponseEvent(k.requests[id].api), id),
           id, "rejected", "timeout", 0)

\* A callback that takes every response on its event for its own.
matchesAny(payload, requestId) == TRUE

\* payload.requestId === requestId
matches(payload, requestId) == payload.requestId = requestId

\* What the matching branch does with the payload, per call: reject on an
\* error field; readFile reads the temporary file the host named.
outcome(api, payload) ==
    IF payload.error THEN [state |-> "rejected", why |-> "error"]
    ELSE IF api # "readFile" THEN [state |-> "resolved", why |-> "response"]
    ELSE IF ~payload.data THEN [state |-> "rejected", why |-> "invalid"]
    ELSE IF payload.readable THEN [state |-> "resolved", why |-> "response"]
    ELSE [state |-> "rejected", why |-> "tempfile"]

\* The response callback that stays subscribed and leaves the timeout armed.
onResponseStaysSubscribed(k, id, payload) ==
    LET api == k.requests[id].api
    IN  IF payload.k = "undefined" THEN k
        ELSE IF ~matches(payload, id) THEN k
        ELSE LET k1 == [k EXCEPT !.requests[id].matched = @ + 1]
                 o  == outcome(api, payload)
             IN  settle(k1, id, o.state, o.why, payload.requestId)

\* The response callback of call id.  payload.requestId of undefined throws;
\* the dispatcher catches it.
onResponse(k, id, payload) ==
    LET api == k.requests[id].api
    IN  IF payload.k = "undefined" THEN k
        ELSE IF ~matches(payload, id) THEN k
        ELSE LET k1 == unsubscribe(clearTimeout(k, id), ResponseEvent(api), id)
                 k2 == [k1 EXCEPT !.requests[id].matched = @ + 1]
                 o  == outcome(api, payload)
             IN  settle(k2, id, o.state, o.why, payload.requestId)

\* listeners.get(event).forEach(callback => { try { callback(payload) } ... }):
\* the callbacks registered when the loop starts, one after the other.
RECURSIVE forEach(_, _, _)
forEach(k, ids, payload) ==
    IF ids = {} THEN k
    ELSE LET id == CHOOSE i \in ids : \A j \in ids : i <= j
         IN  forEach(onResponse(k, id, payload), ids \ {id}, payload)

\* process.on('message', ...): dispatch to the listeners of the event.
dispatch(k, message) ==
    IF Truthy(message.event) /\ message.event \in DOMAIN k.listeners
    THEN forEach(k, k.listeners[message.event], message.payload)
    ELSE k

\* The messages that can reach the worker: every event the bus carries is
\* broadcast to every worker, whoever published it.
Responses ==
    {Message(e, NoPayload) : e \in ResponseEvents}
    \cup {Message(e, Payload(id, err, ~err, TRUE)) :
              e \in ResponseEvents, id \in 0..MaxRequests, err \in BOOLEAN}
    \cup {Message(ReadFileResponse, Payload(id, FALSE, data, FALSE)) :
              id \in 1..MaxRequests, data \in BOOLEAN}

HalfTimeout == TimeoutDuration \div 2

SetSdk(k) ==
    /\ sdkListeners' = k.listeners
    /\ requests' = k.requests
    /\ sent' = k.sent

\* The worker's app calls one of the request/response functions.
CallApi ==
    /\ Len(requests) < MaxRequests
    /\ \E api \in Apis : SetSdk(Call(Sdk(sdkListeners, requests, sent), api))
    /\ UNCHANGED <<legacyVars, busVars, histVars, raceVars, probe, uiVars, handled, activeProcesses, processes>>

\* Half the timeout duration passes for every timeout that is pending.
Tick ==
    /\ \E id \in 1..Len(requests) :
          requests[id].timer = "armed" /\ requests[id].elapsed < TimeoutDuration
    /\ requests' = [id \in 1..Len(requests) |->
                       IF requests[id].timer = "armed"
                          /\ requests[id].elapsed < TimeoutDuration
                       THEN [requests[id] EXCEPT !.elapsed = @ + HalfTimeout]
                       ELSE requests[id]]
    /\ UNCHANGED <<legacyVars, busVars, histVars, raceVars, probe, uiVars, sdkListeners, sent,
                   handled, activeProcesses, processes>>

\* The timeout of call id fires: not before its duration has passed.
Timeout(id) ==
    /\ id \in 1..Len(requests)
    /\ requests[id].timer = "armed"
    /\ requests[id].elapsed >= TimeoutDuration
    /\ SetSdk(onTimeout(Sdk(sdkListeners, requests, sent), id))
    /\ UNCHANGED <<legacyVars, busVars, histVars, raceVars, probe, uiVars, handled, activeProcesses, processes>>

\* A message from the host arrives at the worker: process.on('message').
Receive ==
    /\ \E message \in Responses :
          LET k  == dispatch(Sdk(sdkListeners, requests, sent), message)
              id == message.payload.requestId
              hit(i) == /\ i = id
                        /\ message.payload.k = "object"
                        /\ message.event = ResponseEvent(requests[i].api)
          IN  SetSdk([k EXCEPT !.requests =
                         [i \in 1..Len(k.requests) |->
                             IF hit(i)
                             THEN [k.requests[i] EXCEPT
                                     !.late = @ \/ requests[i].state # "pending",
                                     !.missed = @ \/ k.requests[i].state = "pending"]
                             ELSE k.requests[i]]])
    /\ UNCHANGED <<legacyVars, busVars, histVars, raceVars, probe, uiVars, handled, activeProcesses, processes>>

NextRpc == CallApi \/ Tick \/ (\E id \in 1..MaxRequests : Timeout(id)) \/ Receive

\* The worker is started by a host that runs with the default configuration.
InitRpc == Init /\ config.maxHistory = DefaultMaxHistory

SpecRpc == InitRpc /\ [][NextRpc]_vars

\* The worker's event loop runs a timeout that is due, and time passes.
SpecRpcLive ==
    /\ InitRpc
    /\ [][NextRpc]_vars
    /\ WF_vars(Tick)
    /\ \A id \in 1..MaxRequests : WF_vars(Timeout(id))

\* ------------------------------------------------------- the host side
\* A Map: set and delete of a key.
MapSet(f, key, v) == [x \in DOMAIN f \cup {key} |-> IF x = key THEN v ELSE f[x]]
MapDelete(f, key) == [x \in DOMAIN f \ {key} |-> f[x]]

\* path.basename
Basename(p) == p[Len(p)]

\* The apps in config.app.path.
Apps == {"deploy.js", "watch.js"}
AppPath(appName) == <<"app", appName>>

\* A Worker record of activeProcesses under a key that is not the pid.
WorkerUnkeyed(pid, appPath) == [pid |-> 0, process |-> pid, path |-> appPath]

\* A Worker record of activeProcesses with its key, appProcess.pid: process
\* is the child it holds, named by the pid the child has.
Worker(pid, appPath) == [pid |-> pid, process |-> pid, path |-> appPath]

\* getRunningApps() that reports nothing.
getRunningAppsNone(aps) == <<>>

\* getRunningApps(): the basename of the path of every record, in order.
getRunningApps(aps) == [i \in 1..Len(aps) |-> Basename(aps[i].path)]

\* processManager.broadcast that sends to the first record only.
processBroadcastFirst(aps, ps) ==
    [pid \in Pids |->
        IF aps # <<>> /\ aps[1].process = pid
        THEN [ps[pid] EXCEPT !.inbox = @ + 1] ELSE ps[pid]]

\* processManager.broadcast(event, payload): process.send on the child of
\* every record; send() on a child whose channel is closed emits 'error' on
\* the next tick.
processBroadcast(aps, ps) ==
    [pid \in Pids |->
        IF \E i \in 1..Len(aps) : aps[i].process = pid
        THEN [ps[pid] EXCEPT !.inbox = @ + 1,
                             !.error = @ \/ ~ps[pid].connected]
        ELSE ps[pid]]

\* activeProcesses.set(appProcess.pid, record): in place when the key is there.
activeProcessesSet(aps, w) ==
    IF \E i \in 1..Len(aps) : aps[i].pid = w.pid
    THEN [i \in 1..Len(aps) |-> IF aps[i].pid = w.pid THEN w ELSE aps[i]]
    ELSE Append(aps, w)

\* A delete that leaves the record.
activeProcessesKeep(aps, pid) == aps

\* activeProcesses.delete(pid)
activeProcessesDelete(aps, pid) == SelectSeq(aps, LAMBDA w : w.pid # pid)

\* The record stopAppByName and handleFileRename act on: the first whose
\* key (the basename of its path, or its path) is the one asked for; 0 when
\* there is none.
LastRecord(keys, wanted) ==
    LET matching == {i \in 1..Len(keys) : keys[i] = wanted}
    IN  IF matching = {} THEN 0
        ELSE CHOOSE i \in matching : \A j \in matching : i >= j

FirstRecord(keys, wanted) ==
    LET matching == {i \in 1..Len(keys) : keys[i] = wanted}
    IN  IF matching = {} THEN 0
        ELSE CHOOSE i \in matching : \A j \in matching : i <= j

\* stopAppByName(appName): kill() on the child of the first record whose
\* basename is appName.
stopAppByName(aps, ps, appName) ==
    LET i == FirstRecord(getRunningApps(aps), appName)
    IN  [aps |-> aps,
         ps |-> IF i = 0 THEN ps
                ELSE [ps EXCEPT ![aps[i].process].killed = TRUE]]

\* handleFileRename(renamedFiles): for each file in turn, the first record
\* with the old path gets the new path.
RECURSIVE handleFileRename(_, _)
handleFileRename(aps, files) ==
    IF files = <<>> THEN aps
    ELSE LET i == FirstRecord([j \in 1..Len(aps) |-> aps[j].path], files[1].oldPath)
         IN  handleFileRename(
                 IF i = 0 THEN aps
                 ELSE [aps EXCEPT ![i].path = files[1].newPath],
                 Tail(files))

\* The UI manager's state in one value.
Ui(ai, rp, ps, rs, vs) ==
    [activeInterfaces |-> ai, readinessPromises |-> rp, promises |-> ps,
     renders |-> rs, views |-> vs]

\* A view VS Code made: a WebviewView ('wvv') for a static surface or a
\* WebviewPanel ('wvp').  html is what its webview shows, inbox counts the
\* messages given to webview.postMessage.
View(type, id) ==
    [type |-> type, id |-> id, disposed |-> FALSE, html |-> "none", content |-> 0,
     inbox |-> 0]

\* `wvp:${new Date().getTime()}`
PanelId(clock) == "wvp:" \o ToString(clock)

\* createWebviewPanel(options = {}): a missing options is {}, and options.title
\* throws on null.
createWebviewPanel(u, options, clock) ==
    IF options = "null" THEN [ui |-> u, threw |-> TRUE, panelId |-> ""]
    ELSE LET panelId == PanelId(clock)
             v       == Len(u.views) + 1
         IN  [ui |-> [u EXCEPT
                        !.views = Append(@, View("wvp", panelId)),
                        !.activeInterfaces =
                            MapSet(@, panelId, [view |-> v, type |-> "wvp"])],
              threw |-> FALSE, panelId |-> panelId]

\* uiManager.broadcast that posts to every view ever made.
uiBroadcastAll(u) ==
    [u EXCEPT !.views = [v \in 1..Len(u.views) |-> [u.views[v] EXCEPT !.inbox = @ + 1]]]

\* uiManager.broadcast(event, payload): webview.postMessage on every
\* registered surface.
uiBroadcast(u) ==
    [u EXCEPT !.views =
        [v \in 1..Len(u.views) |->
            IF \E id \in DOMAIN u.activeInterfaces : u.activeInterfaces[id].view = v
            THEN [u.views[v] EXCEPT !.inbox = @ + 1]
            ELSE u.views[v]]]

\* The payload of a request as the host's handlers see it: requestId 0,
\* options "undefined" and filePath FALSE stand for a missing field.
RequestPayload(requestId, options, filePath) ==
    [k |-> "object", requestId |-> requestId, options |-> options,
     filePath |-> filePath]
NoRequestPayload == [RequestPayload(0, "undefined", FALSE) EXCEPT !.k = "undefined"]

\* The payload a handler gives to messageBus.postMessage: the requestId, the
\* names of the other fields, and the value of runningApps.
Response(event, requestId, fields, runningApps) ==
    [event |-> event, requestId |-> requestId, fields |-> fields,
     runningApps |-> runningApps]

\* What the handlers of one event did: the responses they posted, the UI
\* manager's state, and whether an exception left the listener.
Handled(responses, u, threw) == [responses |-> responses, ui |-> u, threw |-> threw]

\* processManager.handleMessage, case 'bridge:app:listRunningRequest'.
handleListRunning(payload, aps, u) ==
    IF payload.k = "object" /\ payload.requestId # 0
    THEN Handled(<<Response(ListRunningResponse, payload.requestId,
                            {"runningApps"}, getRunningApps(aps))>>, u, FALSE)
    ELSE Handled(<<>>, u, FALSE)

\* uiManager.handleMessage, case 'bridge:ui:createPanelRequest': payload.options
\* of an undefined payload throws in the try block and payload.requestId
\* throws again in the catch block.
handleCreatePanel(payload, u, clock) ==
    IF payload.k = "undefined" THEN Handled(<<>>, u, TRUE)
    ELSE LET c == createWebviewPanel(u, payload.options, clock)
         IN  IF c.threw
             THEN Handled(<<Response(CreatePanelResponse, payload.requestId,
                                     {"error"}, <<>>)>>, u, FALSE)
             ELSE Handled(<<Response(CreatePanelResponse, payload.requestId,
                                     {"panelId"}, <<>>)>>, c.ui, FALSE)

\* services.handleReadFileRequest: the destructuring of an undefined payload
\* rejects the async function; readable says whether workspace.fs.readFile
\* and the write of the temporary file succeed.
handleReadFileRequest(payload, u, readable) ==
    IF payload.k = "undefined" THEN Handled(<<>>, u, FALSE)
    ELSE IF payload.requestId = 0 \/ ~payload.filePath THEN Handled(<<>>, u, FALSE)
    ELSE IF readable
    THEN Handled(<<Response(ReadFileResponse, payload.requestId,
                            {"tempFilePath"}, <<>>)>>, u, FALSE)
    ELSE Handled(<<Response(ReadFileResponse, payload.requestId,
                            {"error"}, <<>>)>>, u, FALSE)

\* services.handleGetInfoRequest: answers is FALSE when os.hostname() or
\* os.platform() throws.
handleGetInfoRequest(payload, u, answers) ==
    IF payload.k = "undefined" THEN Handled(<<>>, u, FALSE)
    ELSE IF payload.requestId = 0 THEN Handled(<<>>, u, FALSE)
    ELSE IF answers
    THEN Handled(<<Response(GetInfoResponse, payload.requestId,
                            {"hostname", "platform"}, <<>>)>>, u, FALSE)
    ELSE Handled(<<Response(GetInfoResponse, payload.requestId,
                            {"error"}, <<>>)>>, u, FALSE)

\* processManager.handleMessage, uiManager.handleMessage and
\* services.handleMessage on one event, as the bus listener calls them.
handleMessage(event, payload, aps, u, clock, succeeds) ==
    CASE event = ListRunningRequest -> handleListRunning(payload, aps, u)
      [] event = CreatePanelRequest -> handleCreatePanel(payload, u, clock)
      [] event = ReadFileRequest    -> handleReadFileRequest(payload, u, succeeds)
      [] event = GetInfoRequest     -> handleGetInfoRequest(payload, u, succeeds)
      [] OTHER                      -> Handled(<<>>, u, FALSE)

\* The consumers of a bus message, in the order the host's listener calls
\* them.
Consumers ==
    <<"processManager.broadcast", "uiManager.broadcast",
      "processManager.handleMessage", "uiManager.handleMessage",
      "services.handleMessage">>

\* The consumers the listener gets to call: the statements of the listener
\* stand in one block, so an exception that leaves uiManager.handleMessage
\* leaves the listener before services.handleMessage.
consumersCalled(threw) == IF threw THEN SubSeq(Consumers, 1, 4) ELSE Consumers

\* The request ids on the bus: none (0) or one.
HostRequestIds == 0..1

\* The payloads a request event can carry when it reaches the host: what the
\* SDK sends, and what a worker or surface posts by hand.
RequestPayloads(event) ==
    {NoRequestPayload} \cup
    CASE event = CreatePanelRequest ->
           {RequestPayload(id, o, FALSE) :
               id \in HostRequestIds, o \in {"object", "null"}}
      [] event = ReadFileRequest ->
           {RequestPayload(id, "undefined", fp) :
               id \in HostRequestIds, fp \in BOOLEAN}
      [] OTHER ->
           {RequestPayload(id, "undefined", FALSE) : id \in HostRequestIds}

SetUi(u) ==
    /\ activeInterfaces' = u.activeInterfaces
    /\ readinessPromises' = u.readinessPromises
    /\ promises' = u.promises
    /\ renders' = u.renders
    /\ views' = u.views

TheUi == Ui(activeInterfaces, readinessPromises, promises, renders, views)

\* The listener activate() gave to messageBus.onMessage runs for an event:
\* processManager.broadcast, uiManager.broadcast, then the three handlers.
\* Each entry of handled keeps the event, the records of activeProcesses at
\* that time and what the handlers posted.
HostListener ==
    /\ Len(handled) < MaxHandled
    /\ \E event \in RequestEvents, clock \in {now, now + 1}, succeeds \in BOOLEAN :
       \E payload \in RequestPayloads(event) :
          LET u == uiBroadcast(Ui(activeInterfaces, readinessPromises, promises,
                                  renders, views))
              h == handleMessage(event, payload, activeProcesses, u, clock, succeeds)
          IN  /\ event # CreatePanelRequest => clock = now
              /\ event \notin {ReadFileRequest, GetInfoRequest} => succeeds
              /\ processes' = processBroadcast(activeProcesses, processes)
              /\ SetUi(h.ui)
              /\ now' = clock
              /\ handled' = Append(handled,
                                   [request |-> Message(event, payload),
                                    workers |-> activeProcesses,
                                    responses |-> h.responses,
                                    threw |-> h.threw,
                                    called |-> consumersCalled(h.threw)])
    /\ UNCHANGED <<legacyVars, config, watcher, fs, signals, listeners, outputChannel, histVars,
                   raceVars, probe, sdkListeners, requests, sent, activeProcesses>>

\* No 'error' event is due: Node runs the next-tick queue before the next
\* event.
NoTick == \A pid \in Pids : ~processes[pid].error

\* startAppByPath(appPath): fork and activeProcesses.set(pid, ...).  The
\* system gives the process an id no live process has.
SpawnWorker ==
    /\ NoTick
    /\ \E appName \in Apps, pid \in 1..MaxWorkers :
          /\ processes[pid].state = "free"
          /\ activeProcesses' =
                activeProcessesSet(activeProcesses, Worker(pid, AppPath(appName)))
          /\ processes' = [processes EXCEPT ![pid] =
                             [NoProcess EXCEPT !.state = "running", !.connected = TRUE]]
    /\ UNCHANGED <<legacyVars, busVars, histVars, raceVars, probe, uiVars, sdkListeners, requests,
                   sent, handled>>

\* The child exits and appProcess.on('exit') runs:
\* activeProcesses.delete(appProcess.pid).
WorkerExit ==
    /\ NoTick
    /\ \E pid \in 1..MaxWorkers :
          /\ processes[pid].state = "running"
          /\ activeProcesses' = activeProcessesDelete(activeProcesses, pid)
          /\ processes' = [processes EXCEPT ![pid] = NoProcess]
    /\ UNCHANGED <<legacyVars, busVars, histVars, raceVars, probe, uiVars, sdkListeners, requests,
                   sent, handled>>

NextHost == HostListener \/ SpawnWorker \/ WorkerExit

SpecHost == InitRpc /\ [][NextHost]_vars

\* ------------------------------------------------- the process manager
\* The basenames an app file can have: those of config.app.path and the one
\* a rename gives.
AppNames == Apps \cup {"moved.js"}

\* The events the listener runs for here: 'bridge:app:stop' with an app
\* name, 'vscode:onRename' with the renamed files, and an event no handler
\* has a case for.
AppEvents ==
    {<<"stop", a>> : a \in AppNames}
    \cup {<<"rename", a, b>> : a \in Apps, b \in AppNames}
    \cup {<<"other">>}

\* The listener activate() gave to messageBus.onMessage runs for one of
\* these events: processManager.broadcast, uiManager.broadcast, then
\* processManager.handleMessage.
Listener(events) ==
    /\ NoTick
    /\ nCalls < MaxEvents
    /\ \E e \in events :
          LET sentTo == processBroadcast(activeProcesses, processes)
              s      == stopAppByName(activeProcesses, sentTo, e[2])
              files  == <<[oldPath |-> AppPath(e[2]), newPath |-> AppPath(e[3])]>>
          IN  /\ e[1] = "rename" => e[2] # e[3]
              /\ processes' = IF e[1] = "stop" THEN s.ps ELSE sentTo
              /\ activeProcesses' =
                    CASE e[1] = "stop"   -> s.aps
                      [] e[1] = "rename" -> handleFileRename(activeProcesses, files)
                      [] OTHER           -> activeProcesses
              /\ lastOp' = Op("listener", e, Undefined, TRUE, FALSE)
    /\ SetUi(uiBroadcast(TheUi))
    /\ nCalls' = nCalls + 1
    /\ UNCHANGED <<legacyVars, busVars, calls, nFaults, published, raceVars, probe, sdkListeners,
                   requests, sent, handled>>

AppEvent == Listener(AppEvents)

\* fork() fails to spawn: the child has no pid, startAppByPath still stores
\* its record, and Node emits 'error' on the next tick.
FailedFork ==
    /\ NoTick
    /\ \E appName \in Apps :
          activeProcesses' =
              activeProcessesSet(activeProcesses, Worker(0, AppPath(appName)))
    /\ processes' = [processes EXCEPT ![0] =
                       [NoProcess EXCEPT !.state = "failed", !.error = TRUE]]
    /\ UNCHANGED <<legacyVars, busVars, histVars, raceVars, probe, uiVars, sdkListeners, requests,
                   sent, handled>>

\* appProcess.on('error'): activeProcesses.delete(appProcess.pid).
WorkerError ==
    /\ \E pid \in Pids :
          /\ processes[pid].error
          /\ activeProcesses' = activeProcessesDelete(activeProcesses, pid)
          /\ processes' = [processes EXCEPT ![pid] =
                             IF @.state = "failed" THEN NoProcess
                             ELSE [@ EXCEPT !.error = FALSE]]
    /\ UNCHANGED <<legacyVars, busVars, histVars, raceVars, probe, uiVars, sdkListeners, requests,
                   sent, handled>>

\* A worker calls process.disconnect() and runs on.
WorkerDisconnect ==
    /\ NoTick
    /\ \E pid \in 1..MaxWorkers :
          /\ processes[pid].state = "running" /\ processes[pid].connected
          /\ processes' = [processes EXCEPT ![pid].connected = FALSE]
    /\ UNCHANGED <<legacyVars, busVars, histVars, raceVars, probe, uiVars, sdkListeners, requests,
                   sent, handled, activeProcesses>>

\* processManager.deactivate(): kill() on the child of every record, then
\* activeProcesses.clear().
ProcessDeactivate ==
    /\ NoTick
    /\ activeProcesses # <<>>
    /\ processes' = [pid \in Pids |->
                       IF \E i \in 1..Len(activeProcesses) :
                             activeProcesses[i].process = pid
                       THEN [processes[pid] EXCEPT !.killed = TRUE]
                       ELSE processes[pid]]
    /\ activeProcesses' = <<>>
    /\ UNCHANGED <<legacyVars, busVars, histVars, raceVars, probe, uiVars, sdkListeners, requests,
                   sent, handled>>

NextWorkers ==
    \/ SpawnWorker \/ FailedFork \/ WorkerExit \/ WorkerError \/ WorkerDisconnect
    \/ AppEvent \/ ProcessDeactivate

SpecWorkers == InitRpc /\ [][NextWorkers]_vars

\* A due 'error' event is emitted, and a child that was signalled exits:
\* its exit waits for the next-tick queue each time that has work, so the
\* fairness is strong.
SpecWorkersLive ==
    /\ SpecWorkers
    /\ WF_vars(WorkerError)
    /\ \A pid \in 1..MaxWorkers :
          SF_vars(/\ processes[pid].killed
                  /\ WorkerExit
                  /\ processes'[pid].state = "free")

\* The catch block of the bootstrapper's main: console.error of the error,
\* then process.exit(1).  sent is what it gives to process.send.
bootstrapperCatch ==
    [stderr |-> "Critical error", sent |-> <<>>, exitCode |-> 1]

\* The app of a worker throws while the bootstrapper loads it: the host's
\* stderr handler appends what the bootstrapper wrote, and the 'exit' handler
\* deletes the record.
StartupFails ==
    /\ NoTick
    /\ Len(outputChannel) < MaxEvents
    /\ \E pid \in 1..MaxWorkers :
          /\ processes[pid].state = "running"
          /\ processes[pid].inbox = 0 /\ ~processes[pid].killed
          /\ processes[pid].connected
          /\ sent' = sent \o bootstrapperCatch.sent
          /\ outputChannel' = Append(outputChannel, bootstrapperCatch.stderr)
          /\ activeProcesses' = activeProcessesDelete(activeProcesses, pid)
          /\ processes' = [processes EXCEPT ![pid] = NoProcess]
    /\ UNCHANGED <<legacyVars, config, watcher, fs, signals, listeners, now, histVars, raceVars,
                   probe, uiVars, sdkListeners, requests, handled>>

NextStartup == NextWorkers \/ StartupFails

SpecStartup == InitRpc /\ [][NextStartup]_vars

\* ------------------------------------------------------ the UI manager
\* createReadinessPromise(id): a new pending promise replaces the entry of id.
createReadinessPromise(u, id) ==
    [u EXCEPT !.promises = Append(@, Promise(id)),
              !.readinessPromises = MapSet(@, id, Len(u.promises) + 1)]

\* registerWebviewView(id, view) up to the subscriptions: the record, then
\* resolve() of the promise readinessPromises holds for id.
registerWebviewView(u, id, v) ==
    LET set == [u EXCEPT !.activeInterfaces = MapSet(@, id, [view |-> v, type |-> "wvv"])]
    IN  IF id \in DOMAIN u.readinessPromises
        THEN [set EXCEPT !.promises[u.readinessPromises[id]].resolved = TRUE]
        ELSE set

\* The onDidDispose handler of a WebviewView without the new promise.
onDidDisposeViewKeepsPromise(u, id) ==
    [u EXCEPT !.activeInterfaces = MapDelete(@, id)]

\* The onDidDispose handler registerWebviewView subscribes.
onDidDisposeView(u, id) ==
    createReadinessPromise([u EXCEPT !.activeInterfaces = MapDelete(@, id)], id)

\* The onDidDispose handler createWebviewPanel subscribes.
onDidDisposePanel(u, panelId) ==
    [u EXCEPT !.activeInterfaces = MapDelete(@, panelId)]

\* A call of render(targetId, componentPath): state is "awaiting" at the
\* await, then "done" (webview.html was set) or "failed" (no UI found).
\* awaits is the promise awaited, focused says focus() ran, touched is the
\* view whose html was set (the view's content names the call that set it); registered and pending say what the call found:
\* a record for targetId, and a promise not resolved yet.
Render(targetId, awaits, focused, registered, pending) ==
    [target |-> targetId, state |-> "awaiting", awaits |-> awaits,
     focused |-> focused, touched |-> 0, registered |-> registered,
     pending |-> pending]

\* render from `const ui = activeInterfaces.get(targetId)` on, for the call
\* r: exists is fs.existsSync of the component.
renderProceeds(u, r, exists) ==
    IF u.renders[r].target \notin DOMAIN u.activeInterfaces
    THEN [u EXCEPT !.renders[r].state = "failed"]
    ELSE LET v == u.activeInterfaces[u.renders[r].target].view
         IN  [u EXCEPT !.renders[r].state = "done",
                       !.renders[r].touched = v,
                       !.views[v].html = IF exists THEN "component" ELSE "error",
                       !.views[v].content = r]

\* render up to the await: focus() when a promise exists and no record does,
\* then the await of the promise; a target without a promise goes on at once.
render(u, targetId, exists) ==
    LET has        == targetId \in DOMAIN u.readinessPromises
        registered == targetId \in DOMAIN u.activeInterfaces
        r          == Len(u.renders) + 1
    IN  IF has
        THEN [u EXCEPT !.renders =
                Append(@, Render(targetId, u.readinessPromises[targetId],
                                 ~registered, registered,
                                 ~u.promises[u.readinessPromises[targetId]].resolved))]
        ELSE renderProceeds(
                [u EXCEPT !.renders =
                    Append(@, Render(targetId, 0, FALSE, registered, FALSE))],
                r, exists)

\* The calls of render whose awaited promise is resolved: their continuations
\* are in the microtask queue, in the order of the calls.
Resumable(u) ==
    {r \in 1..Len(u.renders) :
        /\ u.renders[r].state = "awaiting"
        /\ u.promises[u.renders[r].awaits].resolved}

\* The targets a render can name: the static surfaces, the panels made so
\* far, and a name nothing has.
Targets == StaticIds \cup {views[v].id : v \in 1..Len(views)} \cup {"nothing"}

\* The last continuation in the microtask queue.
LastResumable(u) == CHOOSE x \in Resumable(u) : \A y \in Resumable(u) : x >= y

\* The continuation the microtask queue runs next: the one queued first.
FirstResumable(u) == CHOOSE x \in Resumable(u) : \A y \in Resumable(u) : x <= y

\* resolveWebviewView that sets no initial html.
resolveWebviewViewBare(u, id, v) == registerWebviewView(u, id, v)

\* SidebarProvider / BottombarProvider resolveWebviewView(webviewView) for the
\* view v: uiManager.registerWebviewView, then the initial html.
resolveWebviewView(u, id, v) ==
    [registerWebviewView(u, id, v) EXCEPT !.views[v].html = "initial"]

\* VS Code made the view of a static surface and calls resolveWebviewView.
\* VS Code resolves a view only while no view of that surface is alive, and
\* runs no event while a continuation is in the microtask queue.
ResolveWebviewView ==
    /\ Len(views) < MaxViews
    /\ Resumable(TheUi) = {}
    /\ \E id \in StaticIds :
          /\ \A v \in 1..Len(views) : views[v].id = id => views[v].disposed
          /\ LET v == Len(views) + 1
                  u == [TheUi EXCEPT !.views = Append(@, View("wvv", id))]
              IN  SetUi(resolveWebviewView(u, id, v))
    /\ UNCHANGED <<legacyVars, busVars, histVars, raceVars, probe, sdkVars>>

\* VS Code disposes a view or panel that is alive: its onDidDispose handler.
DisposeView ==
    /\ Resumable(TheUi) = {}
    /\ \E v \in 1..Len(views) :
          /\ ~views[v].disposed
          /\ LET u == [TheUi EXCEPT !.views[v].disposed = TRUE]
              IN  SetUi(IF views[v].type = "wvv"
                        THEN onDidDisposeView(u, views[v].id)
                        ELSE onDidDisposePanel(u, views[v].id))
    /\ UNCHANGED <<legacyVars, busVars, histVars, raceVars, probe, sdkVars>>

\* createWebviewPanel(options) at the time of the clock, which may still
\* show the millisecond of the last call.
CreatePanel ==
    /\ Len(views) < MaxViews
    /\ Resumable(TheUi) = {}
    /\ \E clock \in {now, now + 1} :
          /\ SetUi(createWebviewPanel(TheUi, "object", clock).ui)
          /\ now' = clock
    /\ UNCHANGED <<legacyVars, config, watcher, fs, signals, listeners, outputChannel, histVars,
                   raceVars, probe, sdkVars>>

\* A call of render.
CallRender ==
    /\ Len(renders) < MaxRenders
    /\ Resumable(TheUi) = {}
    /\ \E targetId \in Targets, exists \in BOOLEAN :
          SetUi(render(TheUi, targetId, exists))
    /\ UNCHANGED <<legacyVars, busVars, histVars, raceVars, probe, sdkVars>>

\* The continuation of the first call of render in the microtask queue.
ResumeRender ==
    /\ Resumable(TheUi) # {}
    /\ \E exists \in BOOLEAN :
          SetUi(renderProceeds(TheUi, FirstResumable(TheUi), exists))
    /\ UNCHANGED <<legacyVars, busVars, histVars, raceVars, probe, sdkVars>>

\* uiManager.deactivate(): dispose() on the view of every panel record, whose
\* onDidDispose handler deletes the record, then activeInterfaces.clear().
\* The readiness promises are left as they are.
UiDeactivate ==
    /\ Resumable(TheUi) = {}
    /\ SetUi([TheUi EXCEPT
                !.views = [v \in 1..Len(views) |->
                             IF \E id \in DOMAIN activeInterfaces :
                                   /\ activeInterfaces[id].view = v
                                   /\ activeInterfaces[id].type = "wvp"
                             THEN [views[v] EXCEPT !.disposed = TRUE]
                             ELSE views[v]],
                !.activeInterfaces = <<>>])
    /\ UNCHANGED <<legacyVars, busVars, histVars, raceVars, probe, sdkVars>>

NextUi == ResolveWebviewView \/ DisposeView \/ CreatePanel \/ CallRender \/ ResumeRender

SpecUi == InitRpc /\ [][NextUi]_vars

\* The surfaces and the renders up to and after the UI manager's shutdown.
NextUiLife == NextUi \/ UiDeactivate

SpecUiLife == InitRpc /\ [][NextUiLife]_vars

\* The bus listener runs for an event no handler has a case for, between
\* the events of the surfaces.
SurfaceEvent == Resumable(TheUi) = {} /\ Listener({<<"other">>})

NextSurfaces == ResolveWebviewView \/ DisposeView \/ CreatePanel \/ SurfaceEvent

SpecSurfaces == InitRpc /\ [][NextSurfaces]_vars

\* ------------------------------------- from a sender, over the bus, back
\* The host after activate(): the bus initialized, the managers initialized,
\* and the host's listener the only subscriber of the bus.
InitActivated ==
    /\ config = [loaded |-> TRUE, maxHistory |-> DefaultMaxHistory]
    /\ watcher = TRUE
    /\ fs = EmptyFs
    /\ signals = <<>>
    /\ listeners = <<[id |-> 1, kind |-> "returns"]>>
    /\ outputChannel = <<>>
    /\ now = 0
    /\ calls = <<<<>>>>
    /\ nCalls = 0
    /\ nFaults = 0
    /\ published = [e \in EventNames |-> <<>>]
    /\ lastOp = Op("initialize", <<>>, Undefined, TRUE, FALSE)
    /\ frame = IdleFrame
    /\ seen = NothingSeen
    /\ probe = NoProbe
    /\ InitSdk
    /\ InitUi
    /\ InitLegacy

\* The event fields of the messages workers and surfaces send: none or the
\* empty string, a name, and a value that is not a string.
InboundEvents == {<<>>, <<"a">>, NotAString}

\* The payload a sender puts into its messages names the sender: a worker
\* its pid, a static surface a number above the pids.
SurfaceNo(id) == IF id = "sidebar" THEN MaxWorkers + 1 ELSE MaxWorkers + 2

\* A worker gives { event, payload } to process.send and the handler of
\* appProcess.on('message') runs.
WorkerMessage ==
    /\ NoTick
    /\ Resumable(TheUi) = {}
    /\ \E pid \in 1..MaxWorkers, event \in InboundEvents :
          /\ processes[pid].state = "running" /\ processes[pid].connected
          /\ Inbound(event, Obj(pid), forwardsToBus(event))

\* The page of a registered static surface posts { event, payload } and the
\* handler of view.webview.onDidReceiveMessage runs.
SurfaceMessage ==
    /\ NoTick
    /\ Resumable(TheUi) = {}
    /\ \E id \in StaticIds, event \in InboundEvents :
          /\ id \in DOMAIN activeInterfaces
          /\ ~views[activeInterfaces[id].view].disposed
          /\ Inbound(event, Obj(SurfaceNo(id)), forwardsToBus(event))

\* The host's listener that leaves out the sender the payload names.
listenerBroadcastsOthers(aps, ps, u, payload) ==
    LET others == SelectSeq(aps, LAMBDA w : w.pid # payload.id)
    IN  [ps |-> processBroadcast(others, ps), ui |-> uiBroadcast(u)]

\* The first two statements of the host's listener:
\* processManager.broadcast(event, payload), uiManager.broadcast(event, payload).
listenerBroadcasts(aps, ps, u, payload) ==
    [ps |-> processBroadcast(aps, ps), ui |-> uiBroadcast(u)]

\* The watcher hands its oldest pending notification to onSignal, which
\* reads the payload and calls the host's listener; no handler has a case for
\* the event.
Fanout ==
    /\ NoTick
    /\ Resumable(TheUi) = {}
    /\ watcher
    /\ signals # <<>>
    /\ LET uri == Head(signals)
           r   == onSignal(uri, fs, listeners, calls, outputChannel)
           payload == ReadPayload(fs, Append(SubSeq(uri, 1, Len(uri) - 1), DataJson))
           b   == listenerBroadcasts(activeProcesses, processes, TheUi, payload)
       IN  /\ calls' = r.calls
           /\ outputChannel' = r.out
           /\ lastOp' = Op("onSignal", pathToEvent(uri), payload, r.delivered, r.raised)
           /\ processes' = IF r.delivered THEN b.ps ELSE processes
           /\ SetUi(IF r.delivered THEN b.ui ELSE TheUi)
    /\ signals' = Tail(signals)
    /\ UNCHANGED <<legacyVars, config, watcher, fs, listeners, now, nCalls, nFaults, published,
                   raceVars, probe, sdkListeners, requests, sent, handled,
                   activeProcesses>>

NextFanout ==
    \/ SpawnWorker \/ WorkerExit \/ ResolveWebviewView
    \/ WorkerMessage \/ SurfaceMessage \/ Fanout

SpecFanout == InitActivated /\ [][NextFanout]_vars

\* ------------------------------------------------- the path mapping alone
NameTokens == {"a", "b", Colon}

RECURSIVE NamesOfLen(_)
NamesOfLen(n) ==
    IF n = 0 THEN {<<>>}
    ELSE {<<t>> \o r : t \in NameTokens, r \in NamesOfLen(n - 1)}

\* The non-empty strings of at most MaxNameLen tokens.
Names == UNION {NamesOfLen(n) : n \in 1..MaxNameLen}

InitPath ==
    /\ InitBus
    /\ InitSdk
    /\ InitUi
    /\ InitLegacy
    /\ \E e1 \in Names, e2 \in Names :
          probe = [NoProbe EXCEPT !.stage = "names", !.e1 = e1, !.e2 = e2]

\* eventToPath applied to both names.
ApplyEventToPath ==
    /\ probe.stage = "names"
    /\ probe' = [probe EXCEPT !.stage = "paths",
                              !.p1 = eventToPath(probe.e1),
                              !.p2 = eventToPath(probe.e2)]
    /\ UNCHANGED <<legacyVars, busVars, histVars, raceVars, sdkVars, uiVars>>

\* pathToEvent applied to the signal file of the first name's directory.
ApplyPathToEvent ==
    /\ probe.stage = "paths"
    /\ probe' = [probe EXCEPT !.stage = "back",
                              !.back = pathToEvent(Append(probe.p1, MsgSignal))]
    /\ UNCHANGED <<legacyVars, busVars, histVars, raceVars, sdkVars, uiVars>>

NextPath == ApplyEventToPath \/ ApplyPathToEvent

SpecPath == InitPath /\ [][NextPath]_vars

\* ------------------------------------------- the legacy pipeline host
\* The pipeline processes forked in a behaviour, and the UI events the view
\* sends.
MaxPipelines == 2
MaxUiEvents == 2

\* The ChildProcess fork() returns for a pipeline: inbox counts the UI_EVENT
\* messages given to send() while it runs, late those given to send() after
\* it has exited.
Pipeline == [state |-> "running", killed |-> FALSE, inbox |-> 0, late |-> 0]

\* killActiveProcess(): kill() on _activeProcess if there is one, which
\* signals it when it still runs, then _activeProcess = undefined.
killActiveProcess(p, ps) ==
    IF p.activeProcess = 0 THEN [provider |-> p, pipelines |-> ps]
    ELSE [provider  |-> [p EXCEPT !.activeProcess = 0],
          pipelines |-> [ps EXCEPT ![p.activeProcess].killed =
                                       @ \/ ps[p.activeProcess].state = "running"]]

\* setActiveProcess(process): killActiveProcess(), then _activeProcess = process.
setActiveProcess(p, ps, process) ==
    LET k == killActiveProcess(p, ps)
    IN  [provider  |-> [k.provider EXCEPT !.activeProcess = process],
         pipelines |-> k.pipelines]

\* runPipelineFile: fork, provider.setActiveProcess(nodedProcess).  Only a
\* 'message' handler is put on the child.
RunPipelineFile ==
    /\ Len(pipelines) < MaxPipelines
    /\ LET s == setActiveProcess(provider, Append(pipelines, Pipeline),
                                 Len(pipelines) + 1)
       IN  provider' = s.provider /\ pipelines' = s.pipelines
    /\ UNCHANGED <<busVars, histVars, raceVars, probe, sdkVars, uiVars>>

\* A pipeline process exits, at the end of its script or after a signal.
\* The host has no handler for that.
PipelineExit ==
    /\ \E n \in 1..Len(pipelines) :
          /\ pipelines[n].state = "running"
          /\ pipelines' = [pipelines EXCEPT ![n].state = "exited"]
    /\ UNCHANGED <<busVars, histVars, raceVars, probe, sdkVars, uiVars, provider>>

\* BridgeViewProvider.resolveWebviewView: VS Code made the view.
LegacyResolveWebviewView ==
    /\ provider.view # "resolved"
    /\ provider' = [provider EXCEPT !.view = "resolved"]
    /\ UNCHANGED <<busVars, histVars, raceVars, probe, sdkVars, uiVars, pipelines>>

\* The view's onDidDispose handler: killActiveProcess().
LegacyOnDidDispose ==
    /\ provider.view = "resolved"
    /\ LET k == killActiveProcess(provider, pipelines)
       IN  /\ provider' = [k.provider EXCEPT !.view = "disposed"]
           /\ pipelines' = k.pipelines
    /\ UNCHANGED <<busVars, histVars, raceVars, probe, sdkVars, uiVars>>

\* The view's onDidReceiveMessage handler:
\* if (this._activeProcess) this._activeProcess.send({ type: 'UI_EVENT', data }).
LegacyOnDidReceiveMessage ==
    /\ provider.view = "resolved"
    /\ provider.activeProcess # 0
    /\ \A n \in 1..Len(pipelines) : pipelines[n].inbox + pipelines[n].late < MaxUiEvents
    /\ pipelines' = [pipelines EXCEPT ![provider.activeProcess] =
                        IF @.state = "running"
                        THEN [@ EXCEPT !.inbox = @ + 1]
                        ELSE [@ EXCEPT !.late = @ + 1]]
    /\ UNCHANGED <<busVars, histVars, raceVars, probe, sdkVars, uiVars, provider>>

NextLegacy ==
    \/ RunPipelineFile \/ PipelineExit \/ LegacyResolveWebviewView
    \/ LegacyOnDidDispose \/ LegacyOnDidReceiveMessage

SpecLegacy == Init /\ [][NextLegacy]_vars

\* ================================================================ properties
Reverse(q) == [i \in 1..Len(q) |-> q[Len(q) + 1 - i]]
Take(q, n) == SubSeq(q, 1, IF Len(q) < n THEN Len(q) ELSE n)
Front(q) == SubSeq(q, 1, Len(q) - 1)
Count(q, x) == Cardinality({i \in 1..Len(q) : q[i] = x})
IsSuffix(a, b) == Len(a) <= Len(b) /\ a = SubSeq(b, Len(b) - Len(a) + 1, Len(b))
FailureLine == "Failed to post message"
\* No postMessage call so far has failed.
AllCompleted == \A i \in 1..Len(outputChannel) : outputChannel[i] # FailureLine
\* This step is a postMessage call, from entry to return.
IsPostMessageStep == nCalls' = nCalls + 1 /\ lastOp'.op = "postMessage"
\* This step is onSignal handling a notification.
IsOnSignalStep == nCalls' = nCalls /\ watcher /\ watcher' /\ signals # <<>>
                  /\ signals' = Tail(signals)

\* C1: History bound.  As long as every publish has completed, the history of
\* an event holds at most config.message.maxHistory entries, and they are
\* exactly the most recent cap-many prior payloads, most recent first.
C1_HistoryBound ==
    AllCompleted =>
        \A e \in StoreEvents :
            /\ Len(History(fs, e)) <= config.maxHistory
            /\ published[e] # <<>> =>
                  History(fs, e) = Take(Reverse(Front(published[e])), config.maxHistory)

\* C2: After the k-th successful postMessage on an event the current payload
\* is the k-th published payload and the newest history entry is the
\* (k-1)-th; after the first the history is empty.  An event never published
\* reads as absent.
C2_CurrentAndNewest ==
    /\ nCalls = 0 => \A e \in EventNames : Current(fs, e) = Absent
    /\ (lastOp.op = "postMessage" /\ lastOp.ok) =>
          LET pub == published[lastOp.event]
              k   == Len(pub)
              h   == History(fs, lastOp.event)
          IN  /\ Current(fs, lastOp.event) = pub[k]
              /\ k = 1 => h = <<>>
              /\ k >= 2 => (h # <<>> /\ h[1] = pub[k - 1])

\* C3: Delivery fan-out.  Once every notification has been handled, each
\* subscriber has been invoked exactly once with (E, P) for every publish
\* (E, P); the subscribers are registered before the first publish.
C3_ExactlyOnce ==
    (config.loaded /\ signals = <<>>) =>
        \A i \in 1..Len(listeners) : \A e \in EventNames : \A n \in 1..Len(published[e]) :
            Count(calls[listeners[i].id], Delivery(e, published[e][n])) = 1

\* C4: Subscriber isolation.  When onSignal broadcasts an event, every
\* registered subscriber is invoked with the same (event, payload), also the
\* ones after a subscriber that throws, and each throw is logged.
C4_SubscriberIsolation ==
    [][(IsOnSignalStep /\ lastOp'.ok) =>
          /\ \E d \in {Delivery(pathToEvent(Head(signals)),
                                Current(fs, pathToEvent(Head(signals))))} :
                \A i \in 1..Len(listeners) :
                    calls'[listeners[i].id] = Append(calls[listeners[i].id], d)
          /\ Count(outputChannel', "Error in listener")
                = Count(outputChannel, "Error in listener")
                  + Cardinality({i \in 1..Len(listeners) : listeners[i].kind = "throws"})
      ]_vars

C4_Witness ==
    /\ lastOp.op = "onSignal" /\ lastOp.ok
    /\ Len(listeners) >= 2
    /\ listeners[1].kind = "throws"
    /\ calls[listeners[2].id] # <<>>
    /\ calls[listeners[2].id] = calls[listeners[1].id]
    /\ Count(outputChannel, "Error in listener") >= 1

\* C5: Per-event ordering.  Every subscriber is handed the same sequence of
\* deliveries (a later subscriber the end of it), every delivery carries a
\* payload published under the delivered event name, and for one event name
\* no payload is delivered after a payload of a later publish.
C5_PerEventOrder ==
    /\ \A i, j \in 1..Len(calls) : i < j => IsSuffix(calls[j], calls[i])
    /\ \A i \in 1..Len(calls) : \A x \in 1..Len(calls[i]) :
          /\ calls[i][x].event \in EventNames
          /\ Count(published[calls[i][x].event], calls[i][x].payload) = 1
    /\ \A i \in 1..Len(calls) : \A x, y \in 1..Len(calls[i]) :
          (x < y /\ calls[i][x].event = calls[i][y].event)
             => calls[i][x].payload.id <= calls[i][y].payload.id

C5_Witness ==
    /\ Len(calls) >= 2
    /\ Len(calls[2]) >= 2
    /\ calls[1] = calls[2]
    /\ \E x, y \in 1..Len(calls[1]) :
          /\ x < y
          /\ calls[1][x].event = calls[1][y].event
          /\ calls[1][x].payload.id < calls[1][y].payload.id

\* C6: postMessage never throws to its caller: whichever store operation
\* fails, the call returns and the failure is on the output channel.
C6_NeverThrows ==
    lastOp.op = "postMessage" =>
        /\ ~lastOp.raised
        /\ ~lastOp.ok =>
              (outputChannel # <<>> /\ outputChannel[Len(outputChannel)] = FailureLine)

C6_Witness ==
    /\ lastOp.op = "postMessage"
    /\ ~lastOp.ok
    /\ ~lastOp.raised
    /\ nFaults >= 1
    /\ config.loaded
    /\ outputChannel[Len(outputChannel)] = FailureLine

\* C7: A failed publish is a no-op: the event's current payload and history
\* are what they were before the call, and no signal is raised.
C7_FailedPublishNoOp ==
    [][(IsPostMessageStep /\ ~lastOp'.ok) =>
          /\ Current(fs', lastOp'.event) = Current(fs, lastOp'.event)
          /\ History(fs', lastOp'.event) = History(fs, lastOp'.event)
          /\ signals' = signals
      ]_vars

C9_AtomicReplace ==
    seen.hadCurrent => seen.k = "object"

\* C10: eventToPath is injective on event names and pathToEvent of the
\* signal file inside eventToPath(e) is e.
C10_PathMapping ==
    probe.stage = "back" =>
        /\ probe.e1 # probe.e2 => probe.p1 # probe.p2
        /\ probe.back = probe.e1

\* A well-formed event name: a non-empty string without an empty segment.
WellFormed(event) ==
    /\ IsString(event)
    /\ event # <<>>
    /\ \A i \in 1..Len(Split(event)) : Split(event)[i] # <<>>

\* C11: A postMessage whose event is empty, not a string or has an empty
\* segment is rejected and changes nothing in the event store, whichever way
\* it comes in: from the host, from a worker through the SDK, from a surface.
C11_EventValidated ==
    [][(nCalls' = nCalls + 1 /\ ~WellFormed(lastOp'.event)) =>
          (fs' = fs /\ signals' = signals)
      ]_vars

\* The payload file beside a signal file is missing or is not JSON text.
BadPayloadFile(uri) ==
    LET dataPath == Append(SubSeq(uri, 1, Len(uri) - 1), DataJson)
    IN  \/ ~existsSync(fs, dataPath)
        \/ ~IsJson(readFileSync(fs, dataPath).text)

\* C12: The signal watcher survives bad input.  Handling a signal whose
\* payload file is missing or not valid JSON invokes no subscriber and raises
\* nothing; the watcher and the subscribers stay, and a signal with a good
\* payload file, also a later one, is delivered to every subscriber.
C12_WatcherSurvives ==
    [][IsOnSignalStep =>
          /\ ~lastOp'.raised
          /\ listeners' = listeners
          /\ BadPayloadFile(Head(signals)) => (calls' = calls /\ ~lastOp'.ok)
          /\ ~BadPayloadFile(Head(signals)) =>
                (lastOp'.ok /\ \A i \in 1..Len(listeners) :
                                  Len(calls'[listeners[i].id])
                                     = Len(calls[listeners[i].id]) + 1)
      ]_vars

C12_Witness ==
    /\ lastOp.op = "onSignal" /\ lastOp.ok
    /\ Len(listeners) >= 1
    /\ calls[listeners[1].id] # <<>>
    /\ \E i, j \in 1..Len(outputChannel) :
          /\ i < j
          /\ outputChannel[i] = "Error processing signal file"
          /\ outputChannel[j] = "Filesystem event detected"

\* What a call's promise, timeout and callback have come to.
Settlement(r) == <<r.state, r.why, r.by, r.timer, r.matched>>
Subscribed(ls, rs, id) == id \in ls[ResponseEvent(rs[id].api)]

\* C13: Correlation isolation.  Nothing but its own timeout and a response
\* carrying its own request id changes the promise, the timeout or the
\* subscription of a call in flight, also when another call waits on the same
\* response event; a call that a response settled was settled by its own id.
C13_CorrelationIsolation ==
    [][\A id \in 1..Len(requests) :
          (\/ Settlement(requests'[id]) # Settlement(requests[id])
           \/ Subscribed(sdkListeners', requests', id)
                  # Subscribed(sdkListeners, requests, id))
          => \/ requests[id].timer = "armed" /\ requests'[id].timer = "fired"
             \/ requests'[id].by = id /\ requests'[id].matched = requests[id].matched + 1
      ]_vars

C13_Witness ==
    \E i, j \in 1..Len(requests) :
       /\ i # j
       /\ requests[i].api = requests[j].api
       /\ requests[i].state = "resolved" /\ requests[i].by = i
       /\ requests[j].state = "pending" /\ requests[j].timer = "armed"
       /\ Subscribed(sdkListeners, requests, j)

\* C14: Timeout fires.  A timeout that fired has rejected its call with the
\* timeout error, not before the duration passed and without a matching
\* response having been taken, and the call's callback is no longer in the
\* listener set; every call eventually settles.
C14_TimeoutFires ==
    /\ [](\A id \in 1..Len(requests) :
             requests[id].timer = "fired" =>
                /\ requests[id].state = "rejected"
                /\ requests[id].why = "timeout"
                /\ requests[id].matched = 0
                /\ requests[id].elapsed >= TimeoutDuration
                /\ ~Subscribed(sdkListeners, requests, id))
    /\ \A id \in 1..MaxRequests :
          (Len(requests) >= id) ~> (Len(requests) >= id /\ requests[id].state # "pending")

C14_Witness ==
    \E id \in 1..Len(requests) :
       /\ requests[id].timer = "fired"
       /\ requests[id].state = "rejected"
       /\ requests[id].why = "timeout"
       /\ ~requests[id].late
       /\ ~Subscribed(sdkListeners, requests, id)

\* C15: A call settles at most once.  The matching branch of its callback
\* runs at most once and never together with the timeout callback; after it
\* ran the timeout is cleared and the callback unsubscribed; a settled call
\* keeps its outcome whatever arrives later.
C15_SettlesOnce ==
    /\ [](\A id \in 1..Len(requests) :
             /\ requests[id].matched + (IF requests[id].timer = "fired" THEN 1 ELSE 0) <= 1
             /\ requests[id].matched = 1 =>
                   /\ requests[id].timer = "cleared"
                   /\ ~Subscribed(sdkListeners, requests, id))
    /\ [][\A id \in 1..Len(requests) :
             requests[id].state # "pending" =>
                Settlement(requests'[id]) = Settlement(requests[id])
         ]_vars

C15_Witness ==
    \E i, j \in 1..Len(requests) :
       /\ requests[i].state = "resolved"
       /\ requests[i].matched = 1
       /\ requests[i].late
       /\ requests[j].timer = "fired"
       /\ requests[j].why = "timeout"
       /\ requests[j].late

\* C16: The subscription for the response event is registered before the
\* request is sent: every call's callback was in the listener set when its
\* request went out and stays there while the call is pending, and no message
\* carrying the call's id that arrived while it was pending was missed.
C16_SubscribedBeforeSend ==
    \A id \in 1..Len(requests) :
       /\ requests[id].subscribedAtSend
       /\ \E n \in 1..Len(sent) :
             sent[n] = Message(RequestEvent(requests[id].api),
                               Payload(id, FALSE, TRUE, FALSE))
       /\ requests[id].state = "pending" => Subscribed(sdkListeners, requests, id)
       /\ ~requests[id].missed

C16_Witness ==
    \E id \in 1..Len(requests) :
       /\ requests[id].subscribedAtSend
       /\ requests[id].state = "resolved"
       /\ requests[id].by = id
       /\ Len(sent) >= id

\* The fields that carry a result: runningApps (listRunning), panelId
\* (createPanel), tempFilePath (readFile), hostname and platform (getInfo).
ResultFields == {"runningApps", "panelId", "tempFilePath", "hostname", "platform"}

\* C17: Every response a host handler posts includes the requestId of the
\* request it answers and either result fields or an error field, never both
\* and never neither.
C17_ResponseShape ==
    \A n \in 1..Len(handled) : \A i \in 1..Len(handled[n].responses) :
       LET r == handled[n].responses[i]
       IN  /\ r.requestId # 0
           /\ r.requestId = handled[n].request.payload.requestId
           /\ ("error" \in r.fields) # (r.fields \cap ResultFields # {})

\* C18: A listRunning request with id X that the supervisor handles gives
\* exactly one listRunning response, with id X and the basenames of the
\* records of activeProcesses at that time; with no worker running the list
\* is empty.
C18_ListRunning ==
    \A n \in 1..Len(handled) :
       (/\ handled[n].request.event = ListRunningRequest
        /\ handled[n].request.payload.k = "object"
        /\ handled[n].request.payload.requestId # 0)
       => /\ Len(handled[n].responses) = 1
          /\ handled[n].responses[1].event = ListRunningResponse
          /\ handled[n].responses[1].requestId = handled[n].request.payload.requestId
          /\ handled[n].responses[1].fields = {"runningApps"}
          /\ Len(handled[n].responses[1].runningApps) = Len(handled[n].workers)
          /\ \A w \in 1..Len(handled[n].workers) :
                handled[n].responses[1].runningApps[w]
                   = handled[n].workers[w].path[Len(handled[n].workers[w].path)]
          /\ handled[n].workers = <<>> => handled[n].responses[1].runningApps = <<>>

C18_Witness ==
    \E n, m \in 1..Len(handled) :
       /\ handled[n].request.event = ListRunningRequest
       /\ handled[n].workers = <<>>
       /\ Len(handled[n].responses) = 1
       /\ handled[n].responses[1].runningApps = <<>>
       /\ handled[m].request.event = ListRunningRequest
       /\ Len(handled[m].workers) = 2
       /\ Len(handled[m].responses) = 1
       /\ Len(handled[m].responses[1].runningApps) = 2

\* A call of render on a static surface.
StaticRender(r) == renders[r].target \in StaticIds

\* C19: A render on a static surface that is not registered is suspended: it
\* sets no html and does not fail.  It stays suspended while the surface is
\* not registered, also when the surface was registered before and has been
\* disposed, and once registerWebviewView ran for the surface it goes on and
\* sets the html of the view registered for it.
C19_RenderWaitsForSurface ==
    /\ [](\A r \in 1..Len(renders) : StaticRender(r) =>
            /\ renders[r].state # "failed"
            /\ ~renders[r].registered => renders[r].pending
            /\ renders[r].state = "awaiting" => renders[r].touched = 0
            /\ (renders[r].state = "awaiting"
                   /\ renders[r].target \notin DOMAIN activeInterfaces)
                => ~promises[renders[r].awaits].resolved
            /\ (renders[r].state = "awaiting"
                   /\ renders[r].target \in DOMAIN activeInterfaces)
                => r \in Resumable(TheUi))
    /\ [][\A r \in 1..Len(renders) :
            (StaticRender(r) /\ renders[r].state = "awaiting"
               /\ renders'[r].state # "awaiting")
            => /\ renders[r].target \in DOMAIN activeInterfaces
               /\ renders'[r].state = "done"
               /\ renders'[r].touched = activeInterfaces[renders[r].target].view
               /\ views[renders'[r].touched].id = renders[r].target
               /\ ~views[renders'[r].touched].disposed
               /\ views'[renders'[r].touched].html \in {"component", "error"}]_vars
    /\ [][\A v \in 1..Len(views) :
            views'[v].html # views[v].html
            => \E r \in 1..Len(renders') :
                  /\ renders'[r].state = "done"
                  /\ renders'[r].touched = v
                  /\ r \in 1..Len(renders) => renders[r].state = "awaiting"]_vars

\* A render called before the first registration and a render called after
\* a disposal were both suspended and both went on after a registration.
C19_Witness ==
    \E r1, r2 \in 1..Len(renders) :
       /\ StaticRender(r1) /\ StaticRender(r2)
       /\ renders[r1].target = renders[r2].target
       /\ renders[r1].awaits <= 2 /\ renders[r1].pending /\ renders[r1].state = "done"
       /\ renders[r2].awaits > 2 /\ renders[r2].pending /\ renders[r2].state = "done"
       /\ renders[r1].touched # renders[r2].touched

\* The readiness of a static surface: that of the promise readinessPromises
\* holds for it.
Readiness(rp, ps, id) == IF ps[rp[id]].resolved THEN "ready" ELSE "pending"

\* The promises ever made for a surface, and the views ever made for it.
PromisesOf(id) == {p \in 1..Len(promises) : promises[p].id = id}
ViewsOf(id) == {v \in 1..Len(views) : views[v].type = "wvv" /\ views[v].id = id}

\* A static surface is ready exactly while a view is registered for it; every
\* registration fulfilled one wait and every disposal made one new wait, and
\* only the current wait can be pending.
StaticCycles ==
    \A id \in StaticIds :
       /\ Readiness(readinessPromises, promises, id) = "ready"
            <=> id \in DOMAIN activeInterfaces
       /\ Cardinality({p \in PromisesOf(id) : promises[p].resolved})
            = Cardinality(ViewsOf(id))
       /\ Cardinality(PromisesOf(id))
            = 1 + Cardinality({v \in ViewsOf(id) : views[v].disposed})
       /\ \A p \in PromisesOf(id) : p # readinessPromises[id] => promises[p].resolved

\* pending -> ready is a registration, ready -> pending is the disposal of the
\* registered view, and a fulfilled wait stays fulfilled.
StaticTransitions ==
    /\ \A id \in StaticIds :
          LET before == Readiness(readinessPromises, promises, id)
              after  == Readiness(readinessPromises', promises', id)
          IN  /\ (before = "pending" /\ after = "ready")
                   => /\ id \notin DOMAIN activeInterfaces
                      /\ id \in DOMAIN activeInterfaces'
                      /\ activeInterfaces'[id].type = "wvv"
                      /\ readinessPromises'[id] = readinessPromises[id]
              /\ (before = "ready" /\ after = "pending")
                   => /\ id \in DOMAIN activeInterfaces
                      /\ id \notin DOMAIN activeInterfaces'
                      /\ ~views[activeInterfaces[id].view].disposed
                      /\ views'[activeInterfaces[id].view].disposed
                      /\ readinessPromises'[id] = Len(promises) + 1
    /\ \A p \in 1..Len(promises) : promises[p].resolved => promises'[p].resolved

\* The state of a panel: disposed, ready while activeInterfaces holds it
\* under its id, lost when it is alive and activeInterfaces does not hold it.
PanelState(ai, vs, v) ==
    IF vs[v].disposed THEN "disposed"
    ELSE IF vs[v].id \in DOMAIN ai /\ ai[vs[v].id].view = v THEN "ready"
    ELSE "lost"

Panels(vs) == {v \in 1..Len(vs) : vs[v].type = "wvp"}

\* C20: The readiness of a static surface only moves pending -> ready, by
\* registerWebviewView, and ready -> pending, by disposal, and each wait is
\* fulfilled exactly once per cycle; a panel is ready from its creation and
\* only moves from ready to disposed, where it stays.
C20_SurfaceTransitions ==
    /\ []StaticCycles
    /\ [][StaticTransitions]_vars
    /\ [](\A v \in Panels(views) :
            PanelState(activeInterfaces, views, v) \in {"ready", "disposed"})
    /\ [][\A v \in Panels(views) :
            PanelState(activeInterfaces, views, v) = "disposed"
            => PanelState(activeInterfaces', views', v) = "disposed"]_vars

\* What holds of C20 in the code: the static half, and of a panel that it is
\* ready when created and stays disposed once disposed.
C20_StaticHalf ==
    /\ []StaticCycles
    /\ [][StaticTransitions]_vars
    /\ [][\A v \in Panels(views') :
            /\ v \notin Panels(views)
                 => PanelState(activeInterfaces', views', v) = "ready"
            /\ (v \in Panels(views)
                   /\ PanelState(activeInterfaces, views, v) = "disposed")
                 => PanelState(activeInterfaces', views', v) = "disposed"]_vars

\* The views activeInterfaces holds.
Registered(ai) == {ai[id].view : id \in DOMAIN ai}

\* C21: When the bus listener runs, uiManager.broadcast posts the envelope
\* exactly once to every view that is registered and not disposed, and to no
\* other: a static surface whose readiness is pending has no view that gets
\* it, and a disposed panel gets nothing, then or at any other step.
C21_BroadcastToReady ==
    [][/\ nCalls' # nCalls =>
            /\ Len(views') = Len(views)
            /\ \A v \in 1..Len(views) :
                  views'[v].inbox =
                     IF v \in Registered(activeInterfaces) /\ ~views[v].disposed
                     THEN views[v].inbox + 1 ELSE views[v].inbox
            /\ \A id \in StaticIds, v \in 1..Len(views) :
                  (~promises[readinessPromises[id]].resolved /\ views[v].id = id)
                  => views'[v].inbox = views[v].inbox
       /\ \A v \in 1..Len(views) :
             (views[v].disposed \/ nCalls' = nCalls)
             => views'[v].inbox = views[v].inbox]_vars

\* A broadcast reached a registered static view and a panel, and passed over
\* a disposed panel and a static surface that was pending again.
C21_Witness ==
    \E v, w, x \in 1..Len(views) :
       /\ views[v].type = "wvv" /\ views[v].disposed /\ views[v].inbox = 1
       /\ views[w].type = "wvp" /\ ~views[w].disposed /\ views[w].inbox = 2
       /\ views[x].type = "wvp" /\ views[x].disposed /\ views[x].inbox = 1
       /\ nCalls = 2

\* C22: No two calls of createWebviewPanel return the same id: every panel
\* made has an id of its own, every live panel is held by activeInterfaces
\* under its id, and disposing a panel leaves the record of every other
\* panel in place.
C22_UniquePanelIds ==
    /\ [](\A v, w \in Panels(views) : v # w => views[v].id # views[w].id)
    /\ [](\A v \in Panels(views) :
            ~views[v].disposed => v \in Registered(activeInterfaces))
    /\ [][\A v \in Panels(views) :
            (v \in Registered(activeInterfaces) /\ ~views'[v].disposed)
            => v \in Registered(activeInterfaces')]_vars

\* C23: Once a panel is disposed activeInterfaces no longer holds it and
\* readinessPromises has no wait for its id; it gets no further broadcast;
\* and a render called later with its id returns at once, without awaiting
\* anything and without changing any view.
C23_PanelDisposalPermanent ==
    /\ [](\A v \in Panels(views) : views[v].disposed =>
            /\ v \notin Registered(activeInterfaces)
            /\ views[v].id \notin DOMAIN readinessPromises)
    /\ [][\A v \in Panels(views) : views[v].disposed =>
            /\ views'[v] = views[v]
            /\ (Len(renders') > Len(renders)
                   /\ renders'[Len(renders')].target = views[v].id)
                => /\ renders'[Len(renders')].state = "failed"
                   /\ renders'[Len(renders')].awaits = 0
                   /\ views' = views]_vars

\* activeProcesses has a record under the pid.
HasRecord(aps, pid) == \E i \in 1..Len(aps) : aps[i].pid = pid

\* The last run of the bus listener was for this kind of event.
LastEvent(kind) == lastOp.op = "listener" /\ lastOp.event[1] = kind

\* C24: A worker that was spawned and that stopAppByName signalled is
\* eventually off the running list, given that a signalled process exits.
C24_StoppedWorkerRemoved ==
    \A pid \in 1..MaxWorkers :
       (HasRecord(activeProcesses, pid) /\ processes[pid].killed)
       ~> ~HasRecord(activeProcesses, pid)

\* stopAppByName has just signalled a worker, which is still on the list.
C24_Witness ==
    /\ LastEvent("stop")
    /\ \E pid \in 1..MaxWorkers :
          /\ HasRecord(activeProcesses, pid)
          /\ processes[pid].killed
          /\ processes[pid].inbox = 1

\* C25: When the bus listener runs, processManager.broadcast calls send()
\* exactly once on the child of every record activeProcesses has at that
\* time and on no other child; with no record nothing changes.
C25_BroadcastToWorkers ==
    [][/\ nCalls' # nCalls =>
            /\ \A pid \in Pids :
                  processes'[pid].inbox =
                     IF \E i \in 1..Len(activeProcesses) :
                           activeProcesses[i].process = pid
                     THEN processes[pid].inbox + 1 ELSE processes[pid].inbox
            /\ activeProcesses = <<>>
                  => processes' = processes /\ activeProcesses' = <<>>
       /\ nCalls' = nCalls =>
            \A pid \in Pids :
               processes'[pid].inbox \in {processes[pid].inbox, 0}]_vars

\* Two workers were spawned and a broadcast reached both.
C25_Witness ==
    /\ Len(activeProcesses) = 2
    /\ nCalls = 1
    /\ \A pid \in 1..MaxWorkers :
          processes[pid].state = "running" /\ processes[pid].inbox = 1

\* The pids whose record goes away in the step.
Removed(pid) ==
    HasRecord(activeProcesses, pid) /\ ~HasRecord(activeProcesses', pid)

\* The step is the exit of the process with the pid, handled by the host.
ExitOf(pid) ==
    processes[pid].state = "running" /\ processes'[pid].state = "free"

\* C26: stopAppByName leaves every record in place: the stopped worker is
\* still on the running list and still gets the broadcasts that follow; its
\* record goes away only in the step that handles the exit of its process.
C26_StopIsAsynchronous ==
    [][/\ (nCalls' # nCalls /\ lastOp'.event[1] = "stop")
            => /\ activeProcesses' = activeProcesses
               /\ getRunningApps(activeProcesses') = getRunningApps(activeProcesses)
       /\ \A pid \in 1..MaxWorkers :
             /\ (nCalls' # nCalls /\ processes[pid].killed
                    /\ HasRecord(activeProcesses, pid))
                 => processes'[pid].inbox = processes[pid].inbox + 1
             /\ (processes[pid].killed /\ Removed(pid)) => ExitOf(pid)]_vars

\* C27: A record goes away only in the step that handles the exit of its
\* process: not in the error handler, stop, rename, broadcast or deactivate;
\* so it is removed once, and not while its process is running.
C27_OnlyExitRemoves ==
    [][\A pid \in Pids :
          Removed(pid) => ExitOf(pid) /\ processes'[pid].state # "running"]_vars

\* C28: No two records of activeProcesses have the same pid, each record is
\* under the pid of the child it holds, that child exists, and no two
\* records hold the same child.
C28_OneRecordPerProcess ==
    \A i, j \in 1..Len(activeProcesses) :
       /\ activeProcesses[i].pid = activeProcesses[i].process
       /\ processes[activeProcesses[i].process].state # "free"
       /\ i # j => /\ activeProcesses[i].pid # activeProcesses[j].pid
                   /\ activeProcesses[i].process # activeProcesses[j].process

\* Two workers and the child of a failed fork have records, after a rename
\* and a stop.
C28_Witness ==
    /\ Len(activeProcesses) = 3
    /\ HasRecord(activeProcesses, 0)
    /\ \E i \in 1..Len(activeProcesses) :
          Basename(activeProcesses[i].path) = "moved.js"
    /\ \E pid \in 1..MaxWorkers : processes[pid].killed

\* C29: A rename oldPath -> newPath gives newPath to every record whose path
\* is oldPath and changes nothing else: the records keep their pid, child
\* and order, the other records keep their path, no child is signalled or
\* ends, and the running list has the new basename where it had the old.
C29_Relocate ==
    [][(nCalls' # nCalls /\ lastOp'.event[1] = "rename") =>
          LET oldPath == AppPath(lastOp'.event[2])
              newPath == AppPath(lastOp'.event[3])
          IN  /\ Len(activeProcesses') = Len(activeProcesses)
              /\ \A i \in 1..Len(activeProcesses) :
                    /\ activeProcesses'[i].pid = activeProcesses[i].pid
                    /\ activeProcesses'[i].process = activeProcesses[i].process
                    /\ activeProcesses'[i].path =
                          IF activeProcesses[i].path = oldPath THEN newPath
                          ELSE activeProcesses[i].path
                    /\ getRunningApps(activeProcesses')[i] =
                          IF activeProcesses[i].path = oldPath THEN Basename(newPath)
                          ELSE Basename(activeProcesses[i].path)
              /\ \A pid \in Pids :
                    /\ processes'[pid].state = processes[pid].state
                    /\ processes'[pid].killed = processes[pid].killed]_vars

\* C30: While no 'error' event is due, the running list is that of the live
\* workers: every record is that of a running process, entry by entry the
\* basename of its path, and every running process that was not signalled
\* has a record.
C30_RunningListIsLiveWorkers ==
    NoTick =>
       /\ Len(getRunningApps(activeProcesses)) = Len(activeProcesses)
       /\ \A i \in 1..Len(activeProcesses) :
             /\ processes[activeProcesses[i].process].state = "running"
             /\ getRunningApps(activeProcesses)[i] = Basename(activeProcesses[i].path)
       /\ \A pid \in 1..MaxWorkers :
             (processes[pid].state = "running" /\ ~processes[pid].killed)
             => HasRecord(activeProcesses, pid)

\* C31: When the app of a worker throws during startup, the bootstrapper
\* gives a structured fatal message to process.send before the process
\* exits, and the host removes the record of the worker on exit.
C31_StartupFailureReported ==
    [][outputChannel' = Append(outputChannel, bootstrapperCatch.stderr) =>
          /\ Len(sent') = Len(sent) + 1
          /\ \E pid \in 1..MaxWorkers : Removed(pid) /\ ExitOf(pid)]_vars

\* C32: A publish on an event E changes neither the current payload nor the
\* history of any other event, also when one name is a prefix of the other
\* and when a name has a segment 'history'.
C32_PublishFrame ==
    [][IsPostMessageStep =>
          \A other \in NestedEvents \ {lastOp'.event} :
              /\ Current(fs', other) = Current(fs, other)
              /\ History(fs', other) = History(fs, other)]_vars

C34_RendersInOrder ==
    /\ \A r1, r2 \in 1..Len(renders) :
          (r1 < r2 /\ renders[r1].target = renders[r2].target
             /\ renders[r2].state # "awaiting") => renders[r1].state # "awaiting"
    /\ \A v \in 1..Len(views) :
          \/ views[v].content = 0 /\ \A r \in 1..Len(renders) : renders[r].touched # v
          \/ /\ views[v].content \in 1..Len(renders)
             /\ renders[views[v].content].touched = v
             /\ \A r \in 1..Len(renders) :
                   renders[r].touched = v => r <= views[v].content

\* Two renders were suspended on the same surface and both were applied.
C34_Witness ==
    /\ Len(renders) = 2
    /\ renders[1].target = renders[2].target
    /\ renders[1].pending /\ renders[2].pending
    /\ renders[1].state = "done" /\ renders[2].state = "done"
    /\ renders[1].touched = renders[2].touched
    /\ views[renders[2].touched].content = 2

\* C35: A render that was suspended until its surface registered is applied
\* after the provider has set the surface's initial placeholder: the step
\* that registers the view leaves the placeholder showing and the render
\* suspended, and the render then replaces the placeholder.
C35_RenderAfterPlaceholder ==
    [][/\ (Len(views') = Len(views) + 1 /\ views'[Len(views')].type = "wvv") =>
            /\ views'[Len(views')].html = "initial"
            /\ \A r \in 1..Len(renders) :
                  (renders[r].state = "awaiting"
                     /\ renders[r].target = views'[Len(views')].id)
                  => renders'[r].state = "awaiting"
       /\ \A r \in 1..Len(renders) :
            (renders[r].pending /\ renders[r].state = "awaiting"
               /\ renders'[r].state = "done")
            => LET v == renders'[r].touched
               IN  /\ views[v].html # "none"
                   /\ views[v].content = 0 => views[v].html = "initial"
                   /\ views'[v].html \in {"component", "error"}
                   /\ views'[v].content = r]_vars

\* A render suspended on an unregistered surface has replaced the placeholder.
C35_Witness ==
    \E r \in 1..Len(renders) :
       /\ renders[r].pending /\ renders[r].focused
       /\ renders[r].state = "done"
       /\ views[renders[r].touched].html = "component"
       /\ views[renders[r].touched].content = r

\* C36: In every reachable state, a static surface id has a record in
\* activeInterfaces if and only if its current readiness promise is resolved,
\* also after a view is registered again for the id, after an older view of
\* the id is disposed, and after deactivate.
C36_RegistryMatchesReadiness ==
    \A id \in StaticIds :
       id \in DOMAIN activeInterfaces
          <=> Readiness(readinessPromises, promises, id) = "ready"

\* The records whose path has the basename appName, by position.
Matching(aps, appName) ==
    {i \in 1..Len(aps) : Basename(aps[i].path) = appName}

\* The broadcast of the event aside, the child pid is as it was.
Unsignalled(pid) ==
    /\ processes'[pid].killed = processes[pid].killed
    /\ processes'[pid].state = processes[pid].state
    /\ processes'[pid].connected = processes[pid].connected

\* C38: stopAppByName(name) signals exactly one worker, the earliest-spawned
\* record whose path has the basename name, and leaves every other record and
\* child as it was; this also holds when that worker was signalled before and
\* has not exited, and a name that matches no record signals nothing and
\* changes no record.
C38_StopSignalsFirstMatch ==
    [][(nCalls' = nCalls + 1 /\ lastOp'.op = "listener" /\ lastOp'.event[1] = "stop") =>
          LET matching == Matching(activeProcesses, lastOp'.event[2])
          IN  /\ activeProcesses' = activeProcesses
              /\ matching = {} => \A pid \in Pids : Unsignalled(pid)
              /\ matching # {} =>
                    LET first == CHOOSE i \in matching : \A j \in matching : i <= j
                        pid   == activeProcesses[first].process
                    IN  /\ processes'[pid].killed
                        /\ processes'[pid].state = processes[pid].state
                        /\ \A other \in Pids \ {pid} : Unsignalled(other)]_vars

\* Two workers run the same app; stops of that app have signalled the first
\* one, which has not exited, and never the second.
C38_Witness ==
    /\ Len(activeProcesses) = 2
    /\ Basename(activeProcesses[1].path) = Basename(activeProcesses[2].path)
    /\ lastOp.op = "listener" /\ lastOp.event = <<"stop", Basename(activeProcesses[1].path)>>
    /\ nCalls >= 2
    /\ processes[activeProcesses[1].process].killed
    /\ processes[activeProcesses[1].process].inbox >= 2
    /\ processes[activeProcesses[2].process].inbox >= 2
    /\ ~processes[activeProcesses[2].process].killed

\* The children of the records that have an open channel, and the views
\* registered for a surface.
LiveWorkers == {activeProcesses[i].process : i \in 1..Len(activeProcesses)}
ReadyViews == {activeInterfaces[id].view : id \in DOMAIN activeInterfaces}

\* This step is the watcher's notification of a publish reaching the host's
\* listener.
IsFanoutStep == IsOnSignalStep /\ lastOp'.op = "onSignal" /\ lastOp'.ok

\* C37: A message of a worker or a surface that was published and is
\* observed by the watcher is given to every live worker and to every ready
\* surface, the sender included, and to nothing else.
C37_FanoutIncludesSender ==
    [][IsFanoutStep =>
          /\ \A pid \in Pids :
                processes'[pid].inbox =
                   processes[pid].inbox + (IF pid \in LiveWorkers THEN 1 ELSE 0)
          /\ \A v \in 1..Len(views) :
                views'[v].inbox =
                   views[v].inbox + (IF v \in ReadyViews THEN 1 ELSE 0)
          /\ LET from == lastOp'.payload.id
             IN  /\ (from \in 1..MaxWorkers /\ from \in LiveWorkers)
                      => processes'[from].inbox = processes[from].inbox + 1
                 /\ \A id \in StaticIds :
                      (from = SurfaceNo(id) /\ id \in DOMAIN activeInterfaces)
                      => views'[activeInterfaces[id].view].inbox
                            = views[activeInterfaces[id].view].inbox + 1]_vars

\* A worker's message and a surface's message have both come back to their
\* senders, which also got each other's.
C37_Witness ==
    /\ nCalls = 2 /\ signals = <<>>
    /\ lastOp.op = "onSignal" /\ lastOp.ok
    /\ \E pid \in LiveWorkers, id \in DOMAIN activeInterfaces :
          /\ published[<<"a">>] = <<Obj(pid), Obj(SurfaceNo(id))>>
          /\ processes[pid].inbox = 2
          /\ views[activeInterfaces[id].view].inbox = 2

\* This step is the handler of a worker's or a surface's message.
IsInboundStep == nCalls' = nCalls + 1 /\ lastOp'.op \in {"postMessage", "dropped"}

C40_OnePipelineAndLiveTarget ==
    /\ Cardinality({n \in 1..Len(pipelines) :
                       pipelines[n].state = "running" /\ ~pipelines[n].killed}) <= 1
    /\ \A n \in 1..Len(pipelines) :
          (pipelines[n].state = "running" /\ ~pipelines[n].killed)
             => provider.activeProcess = n
    /\ \A n \in 1..Len(pipelines) : pipelines[n].late = 0

====
